---------------------------- MODULE Spec2Model ----------------------------
(***************************************************************************)
(* A model of the data pipeline of data_service:                           *)
(*   - layers/cache.py        CacheLayer (Redis -> MongoDB -> file)        *)
(*   - layers/acquisition.py  AcquisitionLayer (provider failover)         *)
(*   - layers/processing.py   ProcessingLayer (the normalizer)             *)
(*   - services/              StockService.get_stock_history and the       *)
(*                            indicator selection of TechnicalService      *)
(*                                                                         *)
(* Time.  The cache compares an entry's expiry with the wall clock.  The   *)
(* model keeps, for every stored entry, rem = expires_at - now, so the     *)
(* clock itself is not a variable: Tick lowers every rem by one.           *)
(*   rem > 0  the expiry lies in the future                                *)
(*   rem = 0  the expiry equals the clock reading                          *)
(*   rem < 0  the expiry lies in the past (not lowered further)            *)
(***************************************************************************)
EXTENDS Integers, Sequences, FiniteSets, TLC

(* ------------------------------ bounds -------------------------------- *)
\* largest ttl (in clock ticks) a caller passes to set
MaxTTL == 2

(* ------------------------------ domains ------------------------------- *)
\* logical cache keys, as _make_key returns them, each a sequence of
\* characters: "l:C" is namespace l with the one part C
Keys == {<<"l", ":", "C">>}
\* JSON payloads a caller stores
Values == {"v1", "v2"}
\* Python's None: get's "absent", and the value of an entry that is not there
None == "None"
TTLs == 0..MaxTTL

\* the states of a storage handle: get_redis()/get_mongo_db() return None
\* ("none"), or a client whose calls succeed ("up") or raise ("down")
HandleStates == {"none", "up", "down"}

VARIABLES
    redis_client,   \* db._redis_client: state of the Redis handle
    mongo_db,       \* db._mongo_db: state of the MongoDB handle
    redis_data,     \* T1: key -> [raw, rem], the strings Redis holds
    mongo_docs,     \* T2: key -> [value, rem, t1], collection data_cache
    files,          \* T3: path -> [value, rem], the files under CACHE_DIR
    last,           \* the cache call that completed last, and whether the
                    \* environment has changed since (history)
    china_source,   \* AcquisitionLayer._china_source
    tushare_token,  \* settings.TUSHARE_TOKEN is set
    acq_last,       \* the acquisition call that completed last (history)
    reqs,           \* the get_stock_history requests in flight: slot -> the
                    \* coroutine's arguments, position and locals
    loop,           \* the event loop: slot -> the call a request coroutine
                    \* is inside
    key_call,       \* the _make_key call that completed last (history)
    key_seen,       \* an earlier _make_key call, kept for comparison (history)
    proc_call,      \* the ProcessingLayer call that completed last (history)
    ind_call,       \* the get_indicators call that completed last (history)
    ana_call,       \* the transform call that completed last (history)
    http_call       \* the HTTP request handled last (history)

cacheVars == <<redis_client, mongo_db, redis_data, mongo_docs, files, last>>
acqVars == <<china_source, tushare_token, acq_last>>
svcVars == <<reqs, loop>>
fnVars == <<key_call, key_seen, proc_call, ind_call, ana_call, http_call>>
vars == <<redis_client, mongo_db, redis_data, mongo_docs, files, last,
          china_source, tushare_token, acq_last,
          reqs, loop, key_call, key_seen, proc_call, ind_call, ana_call,
          http_call>>

(* --------------------------- serialisation ---------------------------- *)
\* json.dumps(value): the JSON text of a payload
json_dumps(v) == <<"json", v>>
\* json.loads(raw): the payload a JSON text denotes
json_loads(raw) == raw[2]
\* what redis.get returns for a key that is not there
NoRaw == <<>>

NoRedis == [raw |-> NoRaw, rem |-> 0]
\* a document: value and rem are what the code stores; t1 is history, the
\* state of the Redis handle when set wrote the document
Doc(value, ttl) == [value |-> value, rem |-> ttl, t1 |-> redis_client]
NoDoc == [value |-> None, rem |-> 0, t1 |-> "none"]
\* a file: {"value": ..., "expires_at": ...}
File(value, ttl) == [value |-> value, rem |-> ttl]
NoFile == [value |-> None, rem |-> 0]

\* _file_path(key): key.replace(":", "_").replace("/", "_") + ".json" under
\* CACHE_DIR
file_path(key) ==
    [i \in DOMAIN key |-> IF key[i] \in {":", "/"} THEN "_" ELSE key[i]]
        \o <<".json">>
Paths == {file_path(k) : k \in Keys}

(* ----------------------- the storage collaborators -------------------- *)
\* AsyncIOMotorClient(...) is built without tz_aware, so the driver decodes
\* a stored datetime as a naive one
TzAwareClient == FALSE

\* expires_at < datetime.now(tz=utc) on a decoded T2 document: ordering a
\* naive datetime against an aware one raises TypeError
MongoCompareRaises == ~TzAwareClient

\* a handler that does not catch what the tier raised
ExceptNarrow(outcome) == outcome

\* the except clauses of CacheLayer: `except Exception` turns an error of
\* the tier into a miss of the tier
Except(outcome) == IF outcome = "error" THEN "miss" ELSE outcome

(* ------------------------------ CacheLayer.get ------------------------ *)
\* raw = await redis.get(key); if raw: ...
RedisRead(key) ==
    IF redis_client = "down" THEN "error"
    ELSE IF redis_data[key].raw # NoRaw THEN "hit"
    ELSE "miss"

\* doc = find_one({"key": key}); if doc: the expires_at check
MongoRead(key) ==
    IF mongo_db = "down" THEN "error"
    ELSE IF mongo_docs[key] = NoDoc THEN "miss"
    ELSE IF MongoCompareRaises THEN "error"
    ELSE IF mongo_docs[key].rem < 0 THEN "expired"
    ELSE "hit"

\* a file read that does not look at expires_at
FileReadNoExpiry(key, io_error) ==
    IF files[file_path(key)] = NoFile THEN "miss"
    ELSE IF io_error THEN "error"
    ELSE "hit"

\* os.path.exists(path), then json.load and the expires_at check; io_error is
\* an error of the file system inside the try block
FileRead(key, io_error) ==
    IF files[file_path(key)] = NoFile THEN "miss"
    ELSE IF io_error THEN "error"
    ELSE IF files[file_path(key)].rem < 0 THEN "expired"
    ELSE "hit"

\* the whole of get: what it returns, which tier served it, whether an error
\* left the call, and the document store and files it leaves behind
CacheGet(key, io_error) ==
    LET o1 == IF redis_client = "none" THEN "miss" ELSE Except(RedisRead(key))
        o2 == IF mongo_db = "none" THEN "miss" ELSE Except(MongoRead(key))
        o3 == Except(FileRead(key, io_error))
        docs2 == IF o2 = "expired"
                 THEN [mongo_docs EXCEPT ![key] = NoDoc] ELSE mongo_docs
        files3 == IF o3 = "expired"
                  THEN [files EXCEPT ![file_path(key)] = NoFile] ELSE files
        R(ret, tier, raised, d, f) ==
            [ret |-> ret, tier |-> tier, raised |-> raised, docs |-> d, files |-> f]
    IN  IF o1 = "hit"
        THEN R(json_loads(redis_data[key].raw), "T1", FALSE, mongo_docs, files)
        ELSE IF o1 = "error" THEN R(None, "none", TRUE, mongo_docs, files)
        ELSE IF o2 = "hit" THEN R(mongo_docs[key].value, "T2", FALSE, mongo_docs, files)
        ELSE IF o2 = "error" THEN R(None, "none", TRUE, mongo_docs, files)
        ELSE IF o3 = "hit"
        THEN R(files[file_path(key)].value, "T3", FALSE, docs2, files)
        ELSE IF o3 = "error" THEN R(None, "none", TRUE, docs2, files)
        ELSE R(None, "none", FALSE, docs2, files3)

(* ------------------------------ CacheLayer.set ------------------------ *)
\* await redis.setex(key, ttl, serialized): Redis refuses an expire time
\* that is not positive
RedisSetex(ttl) ==
    IF redis_client = "down" \/ ttl <= 0 THEN "error" ELSE "ok"

\* update_one({"key": key}, {"$set": ...}, upsert=True)
MongoUpsert == IF mongo_db = "down" THEN "error" ELSE "ok"

\* os.makedirs, open(path, "w"), json.dump
FileWrite(io_error) == IF io_error THEN "error" ELSE "ok"

\* a write-through set: every tier that takes the write gets it
CacheSetWriteThrough(value, key, ttl, io_error) ==
    LET w1 == redis_client # "none" /\ RedisSetex(ttl) = "ok"
        w2 == mongo_db # "none" /\ MongoUpsert = "ok"
        w3 == FileWrite(io_error) = "ok"
    IN  [tier |-> IF w1 THEN "T1" ELSE IF w2 THEN "T2" ELSE IF w3 THEN "T3" ELSE "none",
         raised |-> FALSE,
         redis |-> IF w1
                   THEN [redis_data EXCEPT
                            ![key] = [raw |-> json_dumps(value), rem |-> ttl]]
                   ELSE redis_data,
         docs |-> IF w2 THEN [mongo_docs EXCEPT ![key] = Doc(value, ttl)]
                  ELSE mongo_docs,
         files |-> IF w3 THEN [files EXCEPT ![file_path(key)] = File(value, ttl)]
                   ELSE files]

\* the whole of set: the tier the value landed in and the stores afterwards
CacheSet(value, key, ttl, io_error) ==
    LET w1 == IF redis_client = "none" THEN "miss" ELSE Except(RedisSetex(ttl))
        w2 == IF mongo_db = "none" THEN "miss" ELSE Except(MongoUpsert)
        w3 == Except(FileWrite(io_error))
        W(tier, raised, r, d, f) ==
            [tier |-> tier, raised |-> raised, redis |-> r, docs |-> d, files |-> f]
    IN  IF w1 = "ok"
        THEN W("T1", FALSE,
               [redis_data EXCEPT ![key] = [raw |-> json_dumps(value), rem |-> ttl]],
               mongo_docs, files)
        ELSE IF w1 = "error" THEN W("none", TRUE, redis_data, mongo_docs, files)
        ELSE IF w2 = "ok"
        THEN W("T2", FALSE, redis_data,
               [mongo_docs EXCEPT ![key] = Doc(value, ttl)], files)
        ELSE IF w2 = "error" THEN W("none", TRUE, redis_data, mongo_docs, files)
        ELSE IF w3 = "ok"
        THEN W("T3", FALSE, redis_data, mongo_docs,
               [files EXCEPT ![file_path(key)] = File(value, ttl)])
        ELSE IF w3 = "error" THEN W("none", TRUE, redis_data, mongo_docs, files)
        ELSE W("none", FALSE, redis_data, mongo_docs, files)

(* ----------------------------- CacheLayer.delete ---------------------- *)
\* a delete that, like set, returns after the first tier that took it
CacheDeleteFirstTier(key, io_error) ==
    LET d1 == redis_client = "up"
        d2 == ~d1 /\ mongo_db = "up"
        d3 == ~d1 /\ ~d2 /\ ~io_error
    IN  [raised |-> FALSE,
         redis |-> IF d1 THEN [redis_data EXCEPT ![key] = NoRedis] ELSE redis_data,
         docs |-> IF d2 THEN [mongo_docs EXCEPT ![key] = NoDoc] ELSE mongo_docs,
         files |-> IF d3 THEN [files EXCEPT ![file_path(key)] = NoFile] ELSE files]

\* every tier in turn, each in its own try/except: pass
CacheDelete(key, io_error) ==
    LET d1 == IF redis_client = "none" THEN "miss"
              ELSE Except(IF redis_client = "down" THEN "error" ELSE "ok")
        d2 == IF mongo_db = "none" THEN "miss"
              ELSE Except(IF mongo_db = "down" THEN "error" ELSE "ok")
        d3 == IF files[file_path(key)] = NoFile THEN "miss"
              ELSE Except(IF io_error THEN "error" ELSE "ok")
    IN  [raised |-> "error" \in {d1, d2, d3},
         redis |-> IF d1 = "ok" THEN [redis_data EXCEPT ![key] = NoRedis]
                   ELSE redis_data,
         docs |-> IF d1 # "error" /\ d2 = "ok"
                  THEN [mongo_docs EXCEPT ![key] = NoDoc] ELSE mongo_docs,
         files |-> IF d1 # "error" /\ d2 # "error" /\ d3 = "ok"
                   THEN [files EXCEPT ![file_path(key)] = NoFile] ELSE files]

(* --------------------------- AcquisitionLayer ------------------------- *)
\* _CHINA_PROVIDER_ORDER
CHINA_PROVIDER_ORDER == <<"akshare", "tushare", "baostock">>
KnownProviders == {CHINA_PROVIDER_ORDER[i] : i \in DOMAIN CHINA_PROVIDER_ORDER}
\* the values settings.DEFAULT_CHINA_DATA_SOURCE takes: a known provider, or
\* a name no adapter exists for
Sources == KnownProviders \cup {"efinance"}
\* what a provider's adapter does when called
Outcomes == {"raise", "empty", "data"}
Markets == {"CN", "HK", "US", "JP"}

\* an order that keeps the default provider in the fallback list as well
ProviderOrderDup(source) == <<source>> \o CHINA_PROVIDER_ORDER

\* providers = [self._china_source] + [p for p in ORDER if p != self._china_source]
ProviderOrder(source) ==
    <<source>> \o SelectSeq(CHINA_PROVIDER_ORDER, LAMBDA p : p # source)

\* the raw records an adapter returns when it has data
Records(provider) == <<[source |-> provider]>>

\* _fetch_china_history / _fetch_china_list: the dispatch on the provider name;
\* the tushare adapters raise RuntimeError without a token
FetchChina(provider, outs) ==
    IF provider \notin KnownProviders THEN "empty"
    ELSE IF provider = "tushare" /\ ~tushare_token THEN "raise"
    ELSE outs[provider]

\* a handler that does not catch what the provider raised
AcqExceptNarrow(outcome) == outcome

\* except Exception as exc: logger.warning(...): the provider is skipped
AcqExcept(outcome) == IF outcome = "raise" THEN "empty" ELSE outcome

\* a loop that returns what the first provider that did not raise returned,
\* empty or not
RECURSIVE TryProvidersNoSkip(_, _, _, _)
TryProvidersNoSkip(providers, i, outs, calls) ==
    IF i > Len(providers)
    THEN [result |-> <<>>, calls |-> calls, raised |-> FALSE]
    ELSE LET p == providers[i]
             o == FetchChina(p, outs)
             c == Append(calls, <<p, o>>)
         IN  IF o = "raise"
             THEN TryProvidersNoSkip(providers, i + 1, outs, c)
             ELSE [result |-> IF o = "data" THEN Records(p) ELSE <<>>,
                   calls |-> c, raised |-> FALSE]

\* for provider in providers: try ... if result: return result
RECURSIVE TryProviders(_, _, _, _)
TryProviders(providers, i, outs, calls) ==
    IF i > Len(providers)
    THEN [result |-> <<>>, calls |-> calls, raised |-> FALSE]
    ELSE LET p == providers[i]
             o == FetchChina(p, outs)
             c == Append(calls, <<p, o>>)
         IN  IF AcqExcept(o) = "raise"
             THEN [result |-> <<>>, calls |-> c, raised |-> TRUE]
             ELSE IF AcqExcept(o) = "data"
             THEN [result |-> Records(p), calls |-> c, raised |-> FALSE]
             ELSE TryProviders(providers, i + 1, outs, c)

\* get_china_stock_history and get_china_stock_list: the same loop
GetChina(outs) == TryProviders(ProviderOrder(china_source), 1, outs, <<>>)

\* get_hk_stock_history / get_us_stock_history: one provider, the whole body
\* in one try, except Exception: return []
GetSingle(provider, outcome) ==
    [result |-> IF AcqExcept(outcome) = "data" THEN Records(provider) ELSE <<>>,
     calls |-> <<<<provider, outcome>>>>,
     raised |-> AcqExcept(outcome) = "raise"]

\* StockService.get_stock_history, the dispatch on the market
FetchHistory(market, outs) ==
    IF market = "CN" THEN GetChina(outs)
    ELSE IF market = "HK" THEN GetSingle("akshare", outs["akshare"])
    ELSE IF market = "US" THEN GetSingle("yfinance", outs["yfinance"])
    ELSE [result |-> <<>>, calls |-> <<>>, raised |-> FALSE]

(* ------------------------------- history ------------------------------ *)
\* the tiers that hold an entry for the key (expired or not)
Held(key) ==
    {t \in {"T1"} : redis_data[key] # NoRedis}
        \cup {t \in {"T2"} : mongo_docs[key] # NoDoc}
        \cup {t \in {"T3"} : files[file_path(key)] # NoFile}

\* a completed call: its arguments, what it returned (ret), the tier that
\* served or took the value, whether an error left it, the tiers that held
\* the key when it began; env: a handle changed state or the clock advanced
\* since it completed; ticked: the clock advanced since
Call(op, key, value, ttl, ret, tier, raised, io_error) ==
    [op |-> op, key |-> key, value |-> value, ttl |-> ttl, ret |-> ret,
     tier |-> tier, raised |-> raised, io_error |-> io_error,
     held |-> IF key = <<>> THEN {} ELSE Held(key),
     env |-> FALSE, ticked |-> FALSE, ttl_arg |-> <<ttl>>]
NoCall(op) == Call(op, <<>>, None, 0, None, "none", FALSE, FALSE)

NoOuts == [p \in KnownProviders \cup {"yfinance"} |-> "empty"]
AcqCall(op, market, outs, r) ==
    [op |-> op, market |-> market, outs |-> outs, calls |-> r.calls,
     result |-> r.result, raised |-> r.raised]
NoAcqCall ==
    AcqCall("none", None, NoOuts, [calls |-> <<>>, result |-> <<>>, raised |-> FALSE])

(* ------------------------------- initial ------------------------------ *)
\* init_redis / init_mongodb leave a client, or None when disabled or when
\* the ping fails; nothing is cached yet
CacheInit ==
    /\ redis_client \in {"none", "up"}
    /\ mongo_db \in {"none", "up"}
    /\ redis_data = [k \in Keys |-> NoRedis]
    /\ mongo_docs = [k \in Keys |-> NoDoc]
    /\ files = [f \in Paths |-> NoFile]
    /\ last = NoCall("none")

\* AcquisitionLayer.__init__ reads the configured source; the token is
\* configured or not
AcqInit ==
    /\ china_source \in Sources
    /\ tushare_token \in BOOLEAN
    /\ acq_last = NoAcqCall

\* the acquisition layer as the cache specification holds it: default settings
AcqIdle ==
    /\ china_source = "akshare"
    /\ tushare_token = FALSE
    /\ acq_last = NoAcqCall

\* the cache as the acquisition specification holds it: no store connected
CacheIdle ==
    /\ redis_client = "none"
    /\ mongo_db = "none"
    /\ redis_data = [k \in Keys |-> NoRedis]
    /\ mongo_docs = [k \in Keys |-> NoDoc]
    /\ files = [f \in Paths |-> NoFile]
    /\ last = NoCall("none")

(* --------------------------- cache actions ---------------------------- *)
Get ==
    \E key \in Keys, io_error \in BOOLEAN :
        LET r == CacheGet(key, io_error)
        IN  /\ mongo_docs' = r.docs
            /\ files' = r.files
            /\ last' = Call("get", key, None, 0, r.ret, r.tier, r.raised, io_error)
            /\ UNCHANGED <<redis_client, mongo_db, redis_data>>
            /\ UNCHANGED acqVars
            /\ UNCHANGED svcVars
            /\ UNCHANGED fnVars

Set ==
    \E value \in Values, key \in Keys, ttl \in TTLs, io_error \in BOOLEAN :
        LET w == CacheSet(value, key, ttl, io_error)
        IN  /\ redis_data' = w.redis
            /\ mongo_docs' = w.docs
            /\ files' = w.files
            /\ last' = Call("set", key, value, ttl, None, w.tier, w.raised, io_error)
            /\ UNCHANGED <<redis_client, mongo_db>>
            /\ UNCHANGED acqVars
            /\ UNCHANGED svcVars
            /\ UNCHANGED fnVars

\* CacheLayer.delete, as clear_cache calls it
Delete ==
    \E key \in Keys, io_error \in BOOLEAN :
        LET d == CacheDelete(key, io_error)
        IN  /\ redis_data' = d.redis
            /\ mongo_docs' = d.docs
            /\ files' = d.files
            /\ last' = Call("delete", key, None, 0, None, "none", d.raised, io_error)
            /\ UNCHANGED <<redis_client, mongo_db>>
            /\ UNCHANGED acqVars
            /\ UNCHANGED svcVars
            /\ UNCHANGED fnVars

(* ---------------------------- environment ----------------------------- *)
\* the connection to Redis is lost: every call on the client raises
RedisFail ==
    /\ redis_client = "up"
    /\ redis_client' = "down"
    /\ last' = [last EXCEPT !.env = TRUE]
    /\ UNCHANGED <<mongo_db, redis_data, mongo_docs, files>>
    /\ UNCHANGED acqVars
    /\ UNCHANGED svcVars
    /\ UNCHANGED fnVars

RedisRecover ==
    /\ redis_client = "down"
    /\ redis_client' = "up"
    /\ last' = [last EXCEPT !.env = TRUE]
    /\ UNCHANGED <<mongo_db, redis_data, mongo_docs, files>>
    /\ UNCHANGED acqVars
    /\ UNCHANGED svcVars
    /\ UNCHANGED fnVars

MongoFail ==
    /\ mongo_db = "up"
    /\ mongo_db' = "down"
    /\ last' = [last EXCEPT !.env = TRUE]
    /\ UNCHANGED <<redis_client, redis_data, mongo_docs, files>>
    /\ UNCHANGED acqVars
    /\ UNCHANGED svcVars
    /\ UNCHANGED fnVars

MongoRecover ==
    /\ mongo_db = "down"
    /\ mongo_db' = "up"
    /\ last' = [last EXCEPT !.env = TRUE]
    /\ UNCHANGED <<redis_client, redis_data, mongo_docs, files>>
    /\ UNCHANGED acqVars
    /\ UNCHANGED svcVars
    /\ UNCHANGED fnVars

\* the clock advances: Redis drops what has expired, the other tiers keep
\* their entries until a get meets them
Age(e) == IF e.value = None \/ e.rem < 0 THEN e ELSE [e EXCEPT !.rem = @ - 1]
Tick ==
    /\ redis_data' = [k \in Keys |->
                        IF redis_data[k].rem <= 1 THEN NoRedis
                        ELSE [redis_data[k] EXCEPT !.rem = @ - 1]]
    /\ mongo_docs' = [k \in Keys |-> Age(mongo_docs[k])]
    /\ files' = [f \in Paths |-> Age(files[f])]
    /\ last' = [last EXCEPT !.env = TRUE, !.ticked = TRUE]
    /\ UNCHANGED <<redis_client, mongo_db>>
    /\ UNCHANGED acqVars
    /\ UNCHANGED svcVars
    /\ UNCHANGED fnVars

(* ------------------------- acquisition actions ------------------------ *)
OutsSet == [KnownProviders \cup {"yfinance"} -> Outcomes]

GetStockHistory ==
    \E market \in Markets, outs \in OutsSet :
        /\ acq_last' = AcqCall("history", market, outs, FetchHistory(market, outs))
        /\ UNCHANGED <<china_source, tushare_token>>
        /\ UNCHANGED cacheVars
        /\ UNCHANGED svcVars
        /\ UNCHANGED fnVars

GetChinaStockList ==
    \E outs \in OutsSet :
        /\ acq_last' = AcqCall("list", "CN", outs, GetChina(outs))
        /\ UNCHANGED <<china_source, tushare_token>>
        /\ UNCHANGED cacheVars
        /\ UNCHANGED svcVars
        /\ UNCHANGED fnVars

(* ------------------------------ _make_key ----------------------------- *)
\* A string is the sequence of its characters; len(s) is Len(s).
\* the string of n characters c
Rep(c, n) == [i \in 1..n |-> c]

\* the longest joined string _make_key keeps as it is
MaxRawLen == 200
\* the number of characters of an md5 hexdigest
Md5HexLen == 32

HexDigits == <<"0", "1", "2", "3", "4", "5", "6", "7",
               "8", "9", "a", "b", "c", "d", "e", "f">>
\* the code of a character, as raw.encode() feeds it to the hash
CharCode(c) ==
    CASE c = ":" -> 58
      [] c = "/" -> 47
      [] c = "_" -> 95
      [] c = "a" -> 97
      [] c = "b" -> 98
      [] c = "n" -> 110
      [] OTHER -> 63

\* hashlib.md5(raw.encode()).hexdigest(): a function of the characters of raw
\* and of nothing else, Md5HexLen hexadecimal digits long.  The digest is a
\* positional checksum here: equal strings have equal digests, and unequal
\* strings may collide.
RECURSIVE Checksum(_, _, _)
Checksum(raw, lo, hi) ==
    IF lo > hi THEN 0
    ELSE IF lo = hi THEN (lo * CharCode(raw[lo])) % 256
    ELSE LET mid == (lo + hi) \div 2
         IN  (Checksum(raw, lo, mid) + Checksum(raw, mid + 1, hi)) % 256
md5_hexdigest(raw) ==
    LET h == Checksum(raw, 1, Len(raw))
    IN  Rep("0", Md5HexLen - 2)
            \o <<HexDigits[(h \div 16) + 1], HexDigits[(h % 16) + 1]>>

\* ":".join(strings)
RECURSIVE Join(_)
Join(strings) ==
    IF strings = <<>> THEN <<>>
    ELSE IF Len(strings) = 1 THEN strings[1]
    ELSE strings[1] \o <<":">> \o Join(Tail(strings))

\* a key that carries the name of the backend in use
make_key_per_backend(namespace, parts) ==
    LET raw == Join(<<namespace>> \o parts)
        backend == IF redis_client = "up" THEN <<>> ELSE <<"_">>
    IN  IF Len(raw) > MaxRawLen
        THEN backend \o namespace \o <<":">> \o md5_hexdigest(raw)
        ELSE backend \o raw

\* _make_key(namespace, *parts)
make_key(namespace, parts) ==
    LET raw == Join(<<namespace>> \o parts)
    IN  IF Len(raw) > MaxRawLen
        THEN namespace \o <<":">> \o md5_hexdigest(raw)
        ELSE raw

\* _HISTORY_CACHE_NS
HISTORY_CACHE_NS == <<"h", "i", "s", "t", "o", "r", "y">>

\* most parts one call of _make_key is given
MaxParts == 2
\* the namespaces and the parts the calls are drawn from: a namespace comes
\* from the service or from the body of POST /api/cache/clear
Namespaces == {HISTORY_CACHE_NS, Rep("n", 218)}
PartStrings == {<<"a">>, <<"a", ":", "b">>, Rep("a", 100)}
PartLists == UNION {[1..n -> PartStrings] : n \in 0..MaxParts}

\* a call of _make_key (op "input": about to be made); redis: the state of
\* the Redis handle when it was made (history)
KeyCall(namespace, parts, key) ==
    [op |-> "make_key", namespace |-> namespace, parts |-> parts, key |-> key,
     redis |-> redis_client]
KeyInput(namespace, parts) ==
    [op |-> "input", namespace |-> namespace, parts |-> parts, key |-> <<>>,
     redis |-> "none"]
NoKeyCall ==
    [op |-> "none", namespace |-> <<>>, parts |-> <<>>, key |-> <<>>,
     redis |-> "none"]

\* _make_key on the arguments under study; the first such call is remembered
MakeKey ==
    /\ key_seen.op # "none"
    /\ key_call' = KeyCall(key_seen.namespace, key_seen.parts,
                           make_key(key_seen.namespace, key_seen.parts))
    /\ key_seen' = IF key_seen.op = "input" THEN key_call' ELSE key_seen
    /\ UNCHANGED <<reqs, loop, proc_call, ind_call, ana_call, http_call>>
    /\ UNCHANGED cacheVars
    /\ UNCHANGED acqVars

\* _make_key on other arguments, between two calls on those under study
MakeOtherKey ==
    /\ key_seen.op # "none"
    /\ \E parts \in {<<>>, <<Rep("a", 100), Rep("a", 100)>>} :
        key_call' = KeyCall(HISTORY_CACHE_NS, parts,
                            make_key(HISTORY_CACHE_NS, parts))
    /\ UNCHANGED <<reqs, loop, key_seen, proc_call, ind_call,
                   ana_call, http_call>>
    /\ UNCHANGED cacheVars
    /\ UNCHANGED acqVars

(* --------------------------- ProcessingLayer -------------------------- *)
\* The calendar is the days 0..MaxDay; day 0 is 1970-01-01, what a numeric
\* date of 0.0 parses to.  A raw record is a dict {"date": ..., "close": ...}
\* (the other price columns are treated as close is and left out); a
\* DataFrame is the sequence of its rows, a row holding a day and floats.
MaxDay == 2
\* most raw records one provider answer holds
MaxRows == 2

\* a float: <<v>>, and NaN/None: <<>>
Num(v) == <<v>>
NaN == <<>>

\* the values of a raw "date": a date string "YYYY-MM-DD" or a date-time
\* string "YYYY-MM-DD HH:MM:SS" (k "str"), text that is no date (k "bad"),
\* no value at all (k "missing"), the number 0.0 (k "num")
DateStr(d, fmt) == [k |-> "str", day |-> d, fmt |-> fmt]
BadDate == [k |-> "bad", day |-> 0, fmt |-> "date"]
NoDate == [k |-> "missing", day |-> 0, fmt |-> "date"]
ZeroDate == [k |-> "num", day |-> 0, fmt |-> "date"]
RawDates ==
    {DateStr(d, fmt) : d \in 1..MaxDay, fmt \in {"date", "datetime"}}
        \cup {BadDate, NoDate}
\* the values of a raw "close": a number, or text that is no number
RawNum(v) == [t |-> "num", v |-> v]
RawText == [t |-> "text", v |-> 0]
RawNaN == [t |-> "nan", v |-> 0]
RawCloses == {RawNum(0), RawNum(1), RawNum(2), RawText}
RawRecords == [date : RawDates, close : RawCloses]
RawLists == UNION {[1..n -> RawRecords] : n \in 0..MaxRows}

\* pd.to_numeric(col, errors="coerce").fillna(0.0)
to_numeric(x) == IF x.t = "num" THEN Num(x.v) ELSE Num(0)

\* pd.to_datetime(col, errors="coerce"): <<day>>, or <<>> for NaT.  With
\* infer (pandas 2) the format of the first value that is not null is the
\* format of the column and a string in another format is NaT; without it
\* every string is parsed on its own.
to_datetime(dates, infer) ==
    LET present == {i \in DOMAIN dates : dates[i].k # "missing"}
        first == CHOOSE i \in present : \A j \in present : i <= j
        guess == IF infer /\ present # {} /\ dates[first].k = "str"
                 THEN dates[first].fmt ELSE "any"
    IN  [i \in DOMAIN dates |->
            IF dates[i].k = "num" THEN <<0>>
            ELSE IF dates[i].k # "str" THEN <<>>
            ELSE IF guess # "any" /\ dates[i].fmt # guess THEN <<>>
            ELSE <<dates[i].day>>]

\* a strftime whose output to_datetime does not read back
strftime_local(ts) == BadDate

\* dt.strftime("%Y-%m-%d"): the date string of a timestamp
strftime(ts) == DateStr(ts[1], "date")

\* df.drop_duplicates(subset=["date"], keep="first")
drop_duplicates_first(rows) ==
    LET kept == SelectSeq([i \in DOMAIN rows |-> i],
                          LAMBDA i : \A j \in DOMAIN rows :
                                        j < i => rows[j].date # rows[i].date)
    IN  [n \in DOMAIN kept |-> rows[kept[n]]]

\* df.drop_duplicates(subset=["date"], keep="last")
drop_duplicates(rows) ==
    LET kept == SelectSeq([i \in DOMAIN rows |-> i],
                          LAMBDA i : \A j \in DOMAIN rows :
                                        j > i => rows[j].date # rows[i].date)
    IN  [n \in DOMAIN kept |-> rows[kept[n]]]

\* df.sort_values("date"): the date strings in ascending order
RECURSIVE Insert(_, _)
Insert(row, sorted) ==
    IF sorted = <<>> THEN <<row>>
    ELSE IF row.date.day < Head(sorted).date.day THEN <<row>> \o sorted
    ELSE <<Head(sorted)>> \o Insert(row, Tail(sorted))
RECURSIVE sort_values(_)
sort_values(rows) ==
    IF rows = <<>> THEN <<>>
    ELSE Insert(rows[Len(rows)], sort_values(SubSeq(rows, 1, Len(rows) - 1)))

\* a normalize that leaves the rows in the order of the input
normalize_unsorted(records, infer) ==
    IF records = <<>> THEN <<>>
    ELSE
    LET nodate == \A i \in DOMAIN records : records[i].date.k = "missing"
        dates == [i \in DOMAIN records |->
                    IF nodate THEN ZeroDate ELSE records[i].date]
        ts == to_datetime(dates, infer)
        typed == [i \in DOMAIN records |->
                    [records[i] EXCEPT !.date = ts[i],
                                       !.close = to_numeric(records[i].close)]]
        parsed == SelectSeq(typed, LAMBDA r : r.date # <<>>)
        dated == [i \in DOMAIN parsed |->
                    [parsed[i] EXCEPT !.date = strftime(parsed[i].date)]]
    IN  drop_duplicates(dated)

\* normalize_ohlcv(records): the DataFrame, rows by ascending date
normalize_ohlcv(records, infer) ==
    IF records = <<>> THEN <<>>
    ELSE
    LET nodate == \A i \in DOMAIN records : records[i].date.k = "missing"
        dates == [i \in DOMAIN records |->
                    IF nodate THEN ZeroDate ELSE records[i].date]
        ts == to_datetime(dates, infer)
        typed == [i \in DOMAIN records |->
                    [records[i] EXCEPT !.date = ts[i],
                                       !.close = to_numeric(records[i].close)]]
        parsed == SelectSeq(typed, LAMBDA r : r.date # <<>>)
        dated == [i \in DOMAIN parsed |->
                    [parsed[i] EXCEPT !.date = strftime(parsed[i].date)]]
    IN  sort_values(drop_duplicates(dated))

\* a float as lists of dicts carry it
to_raw(x) == IF x = NaN THEN RawNaN ELSE RawNum(x[1])

\* to_records(df): df.to_dict(orient="records"), [] for an empty frame
to_records(df) ==
    [i \in DOMAIN df |->
        IF "change" \in DOMAIN df[i]
        THEN [df[i] EXCEPT !.close = to_raw(df[i].close),
                           !.change = to_raw(df[i].change)]
        ELSE [df[i] EXCEPT !.close = to_raw(df[i].close)]]

\* filter_date_range(df, start_date, end_date); a bound is <<day>>, or <<>>
\* when it is not given
filter_date_range(df, start_date, end_date) ==
    SelectSeq(df, LAMBDA r :
        /\ start_date # <<>> => r.date.day >= start_date[1]
        /\ end_date # <<>> => r.date.day <= end_date[1])

\* price_cols, line 76
PRICE_COLS == {"open", "high", "low", "close"}
\* a fill that takes the first value that is not zero instead of the latest
fill_missing_earliest(df) ==
    [i \in DOMAIN df |->
        [c \in DOMAIN df[i] |->
            IF c \notin PRICE_COLS THEN df[i][c]
            ELSE LET known == {j \in 1..i : df[j][c] \notin {Num(0), NaN}}
                     earliest == CHOOSE j \in known : \A h \in known : j <= h
                 IN  IF known = {} THEN NaN ELSE df[earliest][c]]]

\* df[price_cols].replace(0, None).ffill(): in every price column a zero
\* takes the latest value before it that is not zero, and stays without a
\* value when there is none
fill_missing(df) ==
    LET filled(d) ==
            [i \in DOMAIN d |->
                [c \in DOMAIN d[i] |->
                    IF c \notin PRICE_COLS THEN d[i][c]
                    ELSE LET known == {j \in 1..i : d[j][c] \notin {Num(0), NaN}}
                             latest == CHOOSE j \in known : \A h \in known : h <= j
                         IN  IF known = {} THEN NaN ELSE d[latest][c]]]
    IN  CHOOSE out \in {filled(d) : d \in {df}} : TRUE

\* A float the indicators compute is the fraction <<n, d>> in lowest terms,
\* d > 0; <<1, 0>> is inf and <<>> is NaN.
Inf == <<1, 0>>
RECURSIVE GCD(_, _)
GCD(a, b) == IF b = 0 THEN a ELSE GCD(b, a % b)
Frac(n, d) ==
    LET g == GCD(IF n < 0 THEN -n ELSE n, d) IN <<n \div g, d \div g>>
\* the float of a cell of a frame
Q(x) == IF Len(x) = 1 THEN <<x[1], 1>> ELSE x
QAdd(a, b) ==
    IF a = NaN \/ b = NaN THEN NaN
    ELSE LET g == GCD(a[2], b[2])
         IN  Frac(a[1] * (b[2] \div g) + b[1] * (a[2] \div g),
                  (a[2] \div g) * b[2])
QNeg(a) == IF a = NaN THEN NaN ELSE <<-a[1], a[2]>>
QSub(a, b) == QAdd(a, QNeg(b))
QMul(a, b) ==
    IF a = NaN \/ b = NaN THEN NaN
    ELSE LET g == GCD(IF a[1] < 0 THEN -a[1] ELSE a[1], b[2])
             h == GCD(IF b[1] < 0 THEN -b[1] ELSE b[1], a[2])
         IN  Frac((a[1] \div g) * (b[1] \div h),
                  (a[2] \div h) * (b[2] \div g))
\* a / b as floats divide: x / inf is 0, x / 0 is inf, -inf or NaN
QDiv(a, b) ==
    IF a = NaN \/ b = NaN THEN NaN
    ELSE IF b[2] = 0 THEN <<0, 1>>
    ELSE IF b[1] = 0
         THEN (IF a[1] = 0 THEN NaN ELSE IF a[1] > 0 THEN Inf ELSE <<-1, 0>>)
    ELSE IF b[1] > 0 THEN QMul(a, <<b[2], b[1]>>)
    ELSE QMul(a, <<-b[2], -b[1]>>)
QLe(a, b) ==
    LET g == GCD(a[2], b[2])
    IN  a[1] * (b[2] \div g) <= b[1] * (a[2] \div g)
QAbs(a) == IF a = NaN THEN NaN ELSE IF a[1] < 0 THEN QNeg(a) ELSE a

\* floor(n * 10^k / d), by long division
RECURSIVE Digits(_, _, _)
Digits(n, d, k) ==
    IF k = 0 THEN n \div d
    ELSE (n \div d) * 10^k + Digits((n % d) * 10, d, k - 1)
\* x.round(4): the nearest multiple of 1/10000
Round4(a) ==
    IF a = NaN THEN NaN ELSE <<(Digits(a[1], a[2], 5) + 5) \div 10, 10000>>
\* series.round(4)
round(xs) == [i \in DOMAIN xs |-> Round4(xs[i])]

\* prev_close = df["close"].shift(1), row i
previous_close(d, i) == IF i = 1 THEN NaN ELSE d[i - 1].close

\* denominator = prev_close.where(prev_close != 0, df["close"]), row i: NaN
\* is not equal to 0, so a row without a previous close keeps NaN
amplitude_denominator(d, i) ==
    IF previous_close(d, i) = Num(0) THEN d[i].close ELSE previous_close(d, i)

\* a float a division by zero gave: inf, -inf, or the NaN of 0 / 0
DividedByZero(num, den) == num # NaN /\ den # NaN /\ Q(den)[1] = 0

\* ((high - low) / denominator * 100).round(4), row i; rounding leaves inf
\* and NaN as they are
amplitude(d, i) ==
    LET q == QMul(QDiv(QSub(Q(d[i].high), Q(d[i].low)),
                       Q(amplitude_denominator(d, i))),
                  <<100, 1>>)
    IN  IF q = NaN \/ q[2] = 0 THEN q ELSE Round4(q)

\* add_basic_metrics(df): change = close.diff(), and amplitude when the frame
\* has a high and a low
add_basic_metrics(df) ==
    LET added(d) ==
            [i \in DOMAIN d |->
                LET change == IF i = 1 \/ d[i].close = NaN \/ d[i - 1].close = NaN
                              THEN NaN
                              ELSE Num(d[i].close[1] - d[i - 1].close[1])
                IN  IF {"high", "low"} \subseteq DOMAIN d[i]
                    THEN [change |-> change, amplitude |-> amplitude(d, i)] @@ d[i]
                    ELSE [change |-> change] @@ d[i]]
    IN  CHOOSE out \in {added(d) : d \in {df}} : TRUE

\* a pipeline that fills before it filters
history_records_fill_first(raw, start_date, end_date, infer) ==
    to_records(add_basic_metrics(
        filter_date_range(fill_missing(normalize_ohlcv(raw, infer)),
                          <<start_date>>, <<end_date>>)))

\* get_stock_history, from the raw records to the records it returns
history_records(raw, start_date, end_date, infer) ==
    to_records(add_basic_metrics(fill_missing(
        filter_date_range(normalize_ohlcv(raw, infer),
                          <<start_date>>, <<end_date>>))))

\* a call of normalize_ohlcv (op "input": about to be made): raw, the
\* provider's records and infer, the pandas in use is pandas 2; arg, the
\* records this call was given; out, the frame it returned; first, the frame
\* of the call before it when arg is that frame's to_records
ProcCall(op, raw, infer, arg, out, first) ==
    [op |-> op, raw |-> raw, infer |-> infer, arg |-> arg, out |-> out,
     first |-> first]
NoProcCall == ProcCall("none", <<>>, FALSE, <<>>, <<>>, <<>>)

\* normalize_ohlcv on the provider's records
Normalize ==
    /\ proc_call.op = "input"
    /\ proc_call' = ProcCall("normalize", proc_call.raw, proc_call.infer,
                             proc_call.raw,
                             normalize_ohlcv(proc_call.raw, proc_call.infer),
                             <<>>)
    /\ UNCHANGED <<reqs, loop, key_call, key_seen, ind_call,
                   ana_call, http_call>>
    /\ UNCHANGED cacheVars
    /\ UNCHANGED acqVars

\* normalize_ohlcv on the records of a normalized frame, as get_indicators
\* calls it on what get_stock_history returned
Renormalize ==
    /\ proc_call.op = "normalize"
    /\ LET arg == to_records(proc_call.out)
       IN  proc_call' = ProcCall("renormalize", proc_call.raw, proc_call.infer,
                                 arg, normalize_ohlcv(arg, proc_call.infer),
                                 proc_call.out)
    /\ UNCHANGED <<reqs, loop, key_call, key_seen, ind_call,
                   ana_call, http_call>>
    /\ UNCHANGED cacheVars
    /\ UNCHANGED acqVars

(* --------------------------- AnalysisLayer ---------------------------- *)
\* A frame the transforms are called on is a normalized frame: rows by
\* ascending date, each with a close and, when the provider gave them, a high
\* and a low; the prices are numbers.
\* most rows of such a frame
MaxSeries == 3
\* largest window a caller passes besides the defaults
MaxPeriod == 2

\* the square root of a float that is not negative, to three decimals
RECURSIVE ISqrt(_, _, _)
ISqrt(n, lo, hi) ==
    IF lo = hi THEN lo
    ELSE LET mid == (lo + hi + 1) \div 2
         IN  IF mid * mid <= n THEN ISqrt(n, mid, hi) ELSE ISqrt(n, lo, mid - 1)
QSqrt(a) == Frac(ISqrt(Digits(a[1], a[2], 6), 0, 40000), 1000)

\* df[c], a column as a series of floats
Col(df, c) == [i \in DOMAIN df |-> Q(df[i][c])]
\* df[c] = xs
WithCol(df, c, xs) == [i \in DOMAIN df |-> (c :> xs[i]) @@ df[i]]

\* series.diff() and series.shift(1)
diff(xs) == [i \in DOMAIN xs |-> IF i = 1 THEN NaN ELSE QSub(xs[i], xs[i - 1])]
shift(xs) == [i \in DOMAIN xs |-> IF i = 1 THEN NaN ELSE xs[i - 1]]

\* the observations of rolling(window=p, min_periods=1) at row i: the rows of
\* the window that hold a value
Window(xs, i, p) == {j \in 1..i : j > i - p /\ xs[j] # NaN}
RECURSIVE QSum(_, _)
QSum(xs, S) ==
    IF S = {} THEN <<0, 1>>
    ELSE LET j == CHOOSE j \in S : TRUE IN QAdd(xs[j], QSum(xs, S \ {j}))
\* rolling(window=p, min_periods=1).mean()
rolling_mean(xs, p) ==
    [i \in DOMAIN xs |->
        LET obs == Window(xs, i, p)
        IN  IF obs = {} THEN NaN
            ELSE QDiv(QSum(xs, obs), <<Cardinality(obs), 1>>)]
\* rolling(window=p, min_periods=1).std(): the sample deviation, NaN on
\* fewer than two observations
rolling_std(xs, p) ==
    [i \in DOMAIN xs |->
        LET obs == Window(xs, i, p)
            n == Cardinality(obs)
            mean == QDiv(QSum(xs, obs), <<n, 1>>)
            sq == [j \in DOMAIN xs |->
                      QMul(QSub(xs[j], mean), QSub(xs[j], mean))]
        IN  IF n < 2 THEN NaN
            ELSE QSqrt(QDiv(QSum(sq, obs), <<n - 1, 1>>))]
\* rolling(window=p, min_periods=1).min() and .max()
rolling_min(xs, p) ==
    [i \in DOMAIN xs |->
        LET obs == Window(xs, i, p)
        IN  IF obs = {} THEN NaN
            ELSE xs[CHOOSE j \in obs : \A h \in obs : QLe(xs[j], xs[h])]]
rolling_max(xs, p) ==
    [i \in DOMAIN xs |->
        LET obs == Window(xs, i, p)
        IN  IF obs = {} THEN NaN
            ELSE xs[CHOOSE j \in obs : \A h \in obs : QLe(xs[h], xs[j])]]

\* ewm(alpha, adjust=False).mean() of a series without NaN:
\* y[1] = x[1], y[i] = (1 - alpha) * y[i-1] + alpha * x[i]
RECURSIVE ewm_at(_, _, _)
ewm_at(xs, alpha, i) ==
    IF i = 1 THEN xs[1]
    ELSE QAdd(QMul(QSub(<<1, 1>>, alpha), ewm_at(xs, alpha, i - 1)),
              QMul(alpha, xs[i]))
ewm_mean(xs, alpha) == [i \in DOMAIN xs |-> ewm_at(xs, alpha, i)]
\* ewm(span=p) and ewm(com=c)
Span(p) == Frac(2, p + 1)
Com(c) == Frac(1, 1 + c)

\* What a call did with the DataFrame object it was given: out, the frame it
\* returned; arg_after, the argument as the caller sees it after the call;
\* same, the returned object is the argument object; raised, the call raised
\* and returned nothing.
\* "return df" on the untouched argument
Returned(df) ==
    [out |-> df, arg_after |-> df, same |-> TRUE, raised |-> FALSE]
\* "df = df.copy()", or a selection of df, then "return df"
Copied(df, out) ==
    [out |-> out, arg_after |-> df, same |-> FALSE, raised |-> FALSE]
\* "df[cols] = ..." on the argument, then "return df"
Assigned(out) ==
    [out |-> out, arg_after |-> out, same |-> TRUE, raised |-> FALSE]
\* df[cols] on a frame without one of the columns: KeyError
Raised(df) ==
    [out |-> <<>>, arg_after |-> df, same |-> FALSE, raised |-> TRUE]
\* a call on the frame another call returned
Then(x, y) ==
    [out |-> y.out,
     arg_after |-> IF x.same THEN y.arg_after ELSE x.arg_after,
     same |-> x.same /\ y.same,
     raised |-> x.raised \/ y.raised]

\* "periods or [...]"
OrDefault(periods, default) == IF periods = <<>> THEN default ELSE periods
HasColumns(df, cols) == \A c \in cols : c \in DOMAIN df[1]

\* add_ma: MA{p} for every period
RECURSIVE add_ma_cols(_, _)
add_ma_cols(df, periods) ==
    IF periods = <<>> THEN df
    ELSE add_ma_cols(
            WithCol(df, "MA" \o ToString(Head(periods)),
                    round(rolling_mean(Col(df, "close"), Head(periods)))),
            Tail(periods))
\* an add_ma that leaves out the rows before the window is full
add_ma_full_windows(df, periods) ==
    IF df = <<>> THEN Returned(df)
    ELSE LET ps == OrDefault(periods, <<5, 10, 20, 60>>)
             all == add_ma_cols(df, ps)
         IN  Copied(df, SubSeq(all, IF Head(ps) <= Len(all) THEN Head(ps)
                                    ELSE Len(all) + 1, Len(all)))
add_ma(df, periods) ==
    IF df = <<>> THEN Returned(df)
    ELSE Copied(df, add_ma_cols(df, OrDefault(periods, <<5, 10, 20, 60>>)))

\* add_ema: EMA{p} for every period
RECURSIVE add_ema_cols(_, _)
add_ema_cols(df, periods) ==
    IF periods = <<>> THEN df
    ELSE add_ema_cols(
            WithCol(df, "EMA" \o ToString(Head(periods)),
                    round(ewm_mean(Col(df, "close"), Span(Head(periods))))),
            Tail(periods))
add_ema(df, periods) ==
    IF df = <<>> THEN Returned(df)
    ELSE Copied(df, add_ema_cols(df, OrDefault(periods, <<12, 26>>)))

\* add_macd
add_macd(df, fast, slow, signal) ==
    IF df = <<>> THEN Returned(df)
    ELSE
    LET ema_fast == ewm_mean(Col(df, "close"), Span(fast))
        ema_slow == ewm_mean(Col(df, "close"), Span(slow))
        dif == round([i \in DOMAIN df |-> QSub(ema_fast[i], ema_slow[i])])
        dea == round(ewm_mean(dif, Span(signal)))
        hist == round([i \in DOMAIN df |->
                          QMul(<<2, 1>>, QSub(dif[i], dea[i]))])
    IN  Copied(df, WithCol(WithCol(WithCol(df, "MACD_DIF", dif),
                                   "MACD_DEA", dea), "MACD_HIST", hist))

\* add_rsi: the rolling averages of the gains and of the losses
avg_gain(df, p) ==
    LET delta == diff(Col(df, "close"))
    IN  rolling_mean([i \in DOMAIN df |->
                         IF delta[i] # NaN /\ delta[i][1] < 0 THEN <<0, 1>>
                         ELSE delta[i]], p)
avg_loss(df, p) ==
    LET delta == diff(Col(df, "close"))
    IN  rolling_mean([i \in DOMAIN df |->
                         QNeg(IF delta[i] # NaN /\ delta[i][1] > 0
                              THEN <<0, 1>> ELSE delta[i])], p)
\* an RSI that adds the quotient it should subtract
rsi_added(df, p) ==
    LET gain == avg_gain(df, p)
        loss == avg_loss(df, p)
        rs == [i \in DOMAIN df |->
                  QDiv(gain[i], IF loss[i] = <<0, 1>> THEN Inf ELSE loss[i])]
    IN  round([i \in DOMAIN df |->
                  QAdd(<<100, 1>>, QDiv(<<100, 1>>, QAdd(<<1, 1>>, rs[i])))])
\* rs = gain / loss.replace(0, inf); (100 - 100 / (1 + rs)).round(4)
rsi(df, p) ==
    LET gain == avg_gain(df, p)
        loss == avg_loss(df, p)
        rs == [i \in DOMAIN df |->
                  QDiv(gain[i], IF loss[i] = <<0, 1>> THEN Inf ELSE loss[i])]
    IN  round([i \in DOMAIN df |->
                  QSub(<<100, 1>>, QDiv(<<100, 1>>, QAdd(<<1, 1>>, rs[i])))])
RECURSIVE add_rsi_cols(_, _)
add_rsi_cols(df, periods) ==
    IF periods = <<>> THEN df
    ELSE add_rsi_cols(
            WithCol(df, "RSI" \o ToString(Head(periods)),
                    rsi(df, Head(periods))),
            Tail(periods))
add_rsi(df, periods) ==
    IF df = <<>> THEN Returned(df)
    ELSE Copied(df, add_rsi_cols(df, OrDefault(periods, <<6, 14>>)))

\* an add_bollinger with the two outer bands exchanged
add_bollinger_exchanged(df, period, std_dev) ==
    IF df = <<>> THEN Returned(df)
    ELSE
    LET mid == rolling_mean(Col(df, "close"), period)
        std == rolling_std(Col(df, "close"), period)
        band == [i \in DOMAIN df |-> QMul(<<std_dev, 1>>, std[i])]
        upper == round([i \in DOMAIN df |-> QSub(mid[i], band[i])])
        lower == round([i \in DOMAIN df |-> QAdd(mid[i], band[i])])
    IN  Copied(df, WithCol(WithCol(WithCol(df, "BOLL_MID", round(mid)),
                                   "BOLL_UPPER", upper), "BOLL_LOWER", lower))
\* add_bollinger; std_dev, the multiplier, in whole units
add_bollinger(df, period, std_dev) ==
    IF df = <<>> THEN Returned(df)
    ELSE
    LET mid == rolling_mean(Col(df, "close"), period)
        std == rolling_std(Col(df, "close"), period)
        band == [i \in DOMAIN df |-> QMul(<<std_dev, 1>>, std[i])]
        upper == round([i \in DOMAIN df |-> QAdd(mid[i], band[i])])
        lower == round([i \in DOMAIN df |-> QSub(mid[i], band[i])])
    IN  Copied(df, WithCol(WithCol(WithCol(df, "BOLL_MID", round(mid)),
                                   "BOLL_UPPER", upper), "BOLL_LOWER", lower))

\* add_kdj
add_kdj(df, period, signal) ==
    IF df = <<>> \/ ~HasColumns(df, {"high", "low", "close"}) THEN Returned(df)
    ELSE
    LET low_min == rolling_min(Col(df, "low"), period)
        high_max == rolling_max(Col(df, "high"), period)
        denom == [i \in DOMAIN df |->
                    LET w == QSub(high_max[i], low_min[i])
                    IN  IF w = <<0, 1>> THEN <<1, 1>> ELSE w]
        rsv == [i \in DOMAIN df |->
                    QMul(QDiv(QSub(Col(df, "close")[i], low_min[i]), denom[i]),
                         <<100, 1>>)]
        k == round(ewm_mean(rsv, Com(signal - 1)))
        d == round(ewm_mean(k, Com(signal - 1)))
        j == round([i \in DOMAIN df |->
                      QSub(QMul(<<3, 1>>, k[i]), QMul(<<2, 1>>, d[i]))])
    IN  Copied(df, WithCol(WithCol(WithCol(df, "KDJ_K", k), "KDJ_D", d),
                           "KDJ_J", j))

\* the true range: the largest of high - low, |high - prev_close| and
\* |low - prev_close| that is a number
true_range(df) ==
    LET prev_close == shift(Col(df, "close"))
    IN  [i \in DOMAIN df |->
            LET terms == {QSub(Col(df, "high")[i], Col(df, "low")[i]),
                          QAbs(QSub(Col(df, "high")[i], prev_close[i])),
                          QAbs(QSub(Col(df, "low")[i], prev_close[i]))} \ {NaN}
            IN  IF terms = {} THEN NaN
                ELSE CHOOSE t \in terms : \A u \in terms : QLe(u, t)]
\* add_atr
add_atr(df, period) ==
    IF df = <<>> \/ ~HasColumns(df, {"high", "low", "close"}) THEN Returned(df)
    ELSE Copied(df, WithCol(df, "ATR" \o ToString(period),
                            round(rolling_mean(true_range(df), period))))

\* compute_all: the seven transforms with their defaults, each on the frame
\* the one before it returned
compute_all(df) ==
    LET a == add_ma(df, <<>>)
        b == Then(a, add_ema(a.out, <<>>))
        c == Then(b, add_macd(b.out, 12, 26, 9))
        d == Then(c, add_rsi(c.out, <<>>))
        e == Then(d, add_bollinger(d.out, 20, 2))
        f == Then(e, add_kdj(e.out, 9, 3))
    IN  Then(f, add_atr(f.out, 14))

\* the transforms of ProcessingLayer, as calls on a DataFrame object
filter_date_range_call(df, start_date, end_date) ==
    IF df = <<>> THEN Returned(df)
    ELSE Copied(df, filter_date_range(df, start_date, end_date))
fill_missing_call(df) ==
    IF df = <<>> THEN Returned(df)
    ELSE IF ~HasColumns(df, PRICE_COLS \ {"open"}) THEN Raised(df)
    ELSE Assigned(fill_missing(df))
add_basic_metrics_call(df) ==
    IF df = <<>> THEN Returned(df) ELSE Copied(df, add_basic_metrics(df))

\* the frames: every row has a close; all rows, or none, have a high and a
\* low, and then the day closed at its high.  A price of 0 is what
\* normalize_ohlcv puts for a value that is no number, and a high below the
\* low is what a provider's bad record looks like.
HighLows == {<<0, 1>>, <<1, 1>>, <<2, 1>>, <<1, 2>>}
FullRows == {[close |-> Num(hl[1]), high |-> Num(hl[1]), low |-> Num(hl[2])] :
                hl \in HighLows}
CloseRows == {[close |-> Num(c)] : c \in {1, 2}}
Dated(rows) == [i \in DOMAIN rows |-> [date |-> DateStr(i, "date")] @@ rows[i]]
Frames ==
    {Dated(rows) : rows \in UNION {[1..n -> FullRows] \cup [1..n -> CloseRows] :
                                      n \in 0..MaxSeries}}
\* the periods lists a caller passes: none, or one window
Periods == {<<>>} \cup {<<p>> : p \in 1..MaxPeriod}
\* the multipliers a caller passes to add_bollinger
StdDevs == {-1, 0, 2}
\* the date bounds a caller passes: <<>> for none
DateBounds == {<<>>, <<2>>}

\* a call of a transform (op "input": about to be made): params, its
\* arguments besides the frame; arg, the frame passed; the rest as above
AnaCall(op, params, arg, res) ==
    [op |-> op, params |-> params, arg |-> arg, arg_after |-> res.arg_after,
     out |-> res.out, same |-> res.same, raised |-> res.raised]
NoAnaCall == AnaCall("none", <<>>, <<>>, Returned(<<>>))
AnaInput(df) == AnaCall("input", <<>>, df, Returned(df))
AnaRest ==
    /\ UNCHANGED cacheVars
    /\ UNCHANGED acqVars
    /\ UNCHANGED svcVars
    /\ UNCHANGED <<key_call, key_seen, proc_call, ind_call, http_call>>

FilterDateRange ==
    /\ ana_call.op = "input"
    /\ \E start_date \in DateBounds, end_date \in DateBounds :
        ana_call' = AnaCall("filter_date_range",
                            <<Len(start_date), Len(end_date)>>,
                            ana_call.arg,
                            filter_date_range_call(ana_call.arg,
                                                   start_date, end_date))
    /\ AnaRest
FillMissing ==
    /\ ana_call.op = "input"
    /\ ana_call' = AnaCall("fill_missing", <<>>, ana_call.arg,
                           fill_missing_call(ana_call.arg))
    /\ AnaRest
AddBasicMetrics ==
    /\ ana_call.op = "input"
    /\ ana_call' = AnaCall("add_basic_metrics", <<>>, ana_call.arg,
                           add_basic_metrics_call(ana_call.arg))
    /\ AnaRest
AddMa ==
    /\ ana_call.op = "input"
    /\ \E periods \in Periods :
        ana_call' = AnaCall("add_ma", periods, ana_call.arg,
                            add_ma(ana_call.arg, periods))
    /\ AnaRest
AddEma ==
    /\ ana_call.op = "input"
    /\ \E periods \in Periods :
        ana_call' = AnaCall("add_ema", periods, ana_call.arg,
                            add_ema(ana_call.arg, periods))
    /\ AnaRest
AddMacd ==
    /\ ana_call.op = "input"
    /\ \E p \in {<<12, 26, 9>>, <<1, MaxPeriod, 1>>} :
        ana_call' = AnaCall("add_macd", p, ana_call.arg,
                            add_macd(ana_call.arg, p[1], p[2], p[3]))
    /\ AnaRest
AddRsi ==
    /\ ana_call.op = "input"
    /\ \E periods \in Periods :
        ana_call' = AnaCall("add_rsi", periods, ana_call.arg,
                            add_rsi(ana_call.arg, periods))
    /\ AnaRest
AddBollinger ==
    /\ ana_call.op = "input"
    /\ \E period \in 1..MaxPeriod, std_dev \in StdDevs :
        ana_call' = AnaCall("add_bollinger", <<period, std_dev>>, ana_call.arg,
                            add_bollinger(ana_call.arg, period, std_dev))
    /\ AnaRest
AddKdj ==
    /\ ana_call.op = "input"
    /\ \E p \in {<<9, 3>>, <<MaxPeriod, 2>>} :
        ana_call' = AnaCall("add_kdj", p, ana_call.arg,
                            add_kdj(ana_call.arg, p[1], p[2]))
    /\ AnaRest
AddAtr ==
    /\ ana_call.op = "input"
    /\ \E period \in 1..MaxPeriod :
        ana_call' = AnaCall("add_atr", <<period>>, ana_call.arg,
                            add_atr(ana_call.arg, period))
    /\ AnaRest
ComputeAll ==
    /\ ana_call.op = "input"
    /\ ana_call' = AnaCall("compute_all", <<>>, ana_call.arg,
                           compute_all(ana_call.arg))
    /\ AnaRest

(* --------------------------- TechnicalService ------------------------- *)
\* _SUPPORTED, in the order get_indicators applies the transforms
SUPPORTED == <<"ma", "ema", "macd", "rsi", "boll", "kdj", "atr">>
SupportedSet == {SUPPORTED[i] : i \in DOMAIN SUPPORTED}

\* the columns a transform of AnalysisLayer appends
Columns(transform) ==
    CASE transform = "ma" -> {"MA5", "MA10", "MA20", "MA60"}
      [] transform = "ema" -> {"EMA12", "EMA26"}
      [] transform = "macd" -> {"MACD_DIF", "MACD_DEA", "MACD_HIST"}
      [] transform = "rsi" -> {"RSI6", "RSI14"}
      [] transform = "boll" -> {"BOLL_MID", "BOLL_UPPER", "BOLL_LOWER"}
      [] transform = "kdj" -> {"KDJ_K", "KDJ_D", "KDJ_J"}
      [] transform = "atr" -> {"ATR14"}
      [] OTHER -> {}

\* most items the indicators parameter of one request holds
MaxInd == 2
\* the items between the commas of ?indicators=...: a supported name, a name
\* that is not supported, nothing, blanks
QueryItems == SupportedSet \cup {"foo", "", " "}
\* the parameter: absent (given FALSE), or the items of the string given
\* ("" splits into the one item "")
Queries ==
    {[given |-> FALSE, items |-> <<>>]}
        \cup {[given |-> TRUE, items |-> q] :
                q \in UNION {[1..n -> QueryItems] : n \in 1..MaxInd}}

\* `if indicators:` in the router: the parameter is there and not ""
QueryTruthy(query) == query.given /\ query.items # <<"">>

\* [i.strip().lower() for i in indicators.split(",") if i.strip()]
indicator_list(query) == SelectSeq(query.items, LAMBDA i : i \notin {"", " "})

\* selected = set(indicators) if indicators else None, then the seven tests
\* `selected is None or name in selected`; listed: the router passed a list
applied_transforms(listed, indicators) ==
    IF listed /\ indicators # <<>>
    THEN SelectSeq(SUPPORTED, LAMBDA t :
            t \in {indicators[i] : i \in DOMAIN indicators})
    ELSE SUPPORTED

\* GET /api/technical/{symbol}: the router and get_indicators; has_history:
\* get_stock_history returned records
IndCall(query, has_history) ==
    LET listed == QueryTruthy(query)
        indicators == IF listed THEN indicator_list(query) ELSE <<>>
        unknown == SelectSeq(indicators, LAMBDA i : i \notin SupportedSet)
        applied == IF unknown # <<>> \/ ~has_history THEN <<>>
                   ELSE applied_transforms(listed, indicators)
    IN  [op |-> "indicators", query |-> query, has_history |-> has_history,
         listed |-> listed, indicators |-> indicators,
         status |-> IF unknown # <<>> THEN "bad_request" ELSE "ok",
         applied |-> applied,
         columns |-> UNION {Columns(applied[i]) : i \in DOMAIN applied}]
NoIndCall ==
    [op |-> "none", query |-> [given |-> FALSE, items |-> <<>>],
     has_history |-> FALSE, listed |-> FALSE, indicators |-> <<>>,
     status |-> "ok", applied |-> <<>>, columns |-> {}]

GetIndicators ==
    \E query \in Queries, has_history \in BOOLEAN :
        /\ ind_call' = IndCall(query, has_history)
        /\ UNCHANGED <<reqs, loop, key_call, key_seen, proc_call,
                       ana_call, http_call>>
        /\ UNCHANGED cacheVars
        /\ UNCHANGED acqVars

(* ----------------------------- StockService --------------------------- *)
\* settings.CACHE_TTL and settings.STOCK_DATA_CACHE_TTL, in hours: the clock
\* of the model ticks once an hour
CACHE_TTL == 1
STOCK_DATA_CACHE_TTL == 2

\* the request slots: the get_stock_history coroutines the event loop holds
Reqs == {"r1", "r2"}
\* the arguments the requests are drawn from
ReqMarkets == {"CN"}
SYMBOL == <<"S">>
ReqStart == MaxDay
ReqEnd == MaxDay

\* the characters of a market code and of the date string of a day
MarketStr(market) ==
    CASE market = "CN" -> <<"C", "N">>
      [] market = "HK" -> <<"H", "K">>
      [] market = "US" -> <<"U", "S">>
      [] OTHER -> <<"J", "P">>
DayStr(day) == <<ToString(day)>>

\* the key of self._cache.get/set(_HISTORY_CACHE_NS, market, symbol,
\* start_date, end_date)
HistKey(market, symbol, start_date, end_date) ==
    make_key(HISTORY_CACHE_NS,
             <<MarketStr(market), symbol, DayStr(start_date), DayStr(end_date)>>)
HistKeys == {HistKey(m, SYMBOL, ReqStart, ReqEnd) : m \in ReqMarkets}
HistPaths == {file_path(k) : k \in HistKeys}

\* the raw records a provider with data answers with: a day before the range
\* and a zero close in it; one record in the range
RawSamples ==
    {<<[date |-> DateStr(1, "date"), close |-> RawNum(1)],
       [date |-> DateStr(MaxDay, "date"), close |-> RawNum(0)]>>,
     <<[date |-> DateStr(MaxDay, "date"), close |-> RawNum(2)]>>}
\* what the providers do during one request: all raise, all are empty, all
\* have data
SvcOuts == {[p \in KnownProviders \cup {"yfinance"} |-> o] : o \in Outcomes}

\* a request slot: pc, the position of the coroutine ("idle": not started,
\* "miss": past the cache read, "write": past the processing, "done": about
\* to return result); read, hit, fetched, normalized, wrote: what it has done
\* so far; overlap: the requests that were in flight when it started
IdleReq ==
    [pc |-> "idle", market |-> "CN", force_refresh |-> FALSE,
     read |-> FALSE, hit |-> FALSE, fetched |-> FALSE, normalized |-> FALSE,
     wrote |-> FALSE, raw |-> <<>>, records |-> <<>>, result |-> <<>>,
     overlap |-> {}]
InFlight(r) == reqs[r].pc \in {"miss", "write"}

\* `cached is not None`: get returns None exactly when no tier served the key
IsCached(g) == g.tier # "none"

\* a read of the cache whatever force_refresh says
ReadsCacheAlways(force_refresh) == TRUE

\* `if not force_refresh:`
ReadsCache(force_refresh) == ~force_refresh

\* a service that goes on to process and cache whatever came back
AfterFetchAlways(raw) == "write"

\* `if not raw: return []`
AfterFetch(raw) == IF raw = <<>> THEN "done" ELSE "write"

\* a coroutine is suspended only inside an await that reaches a store: with
\* no Redis and no MongoDB handle get and set run through without a switch
Suspends == redis_client # "none" \/ mongo_db # "none"

\* a service that holds a lock from the cache read to the cache write
MayRunLocked(r) == \A q \in Reqs \ {r} : ~InFlight(q)

\* the event loop runs any coroutine that is ready; get_stock_history takes
\* no lock
MayRun(r) == \A q \in Reqs \ {r} : InFlight(q) => Suspends

\* lines 76-79: the cache read, and the return on a hit
HistGet(r) ==
    /\ reqs[r].pc = "idle"
    /\ \E market \in ReqMarkets, force_refresh \in BOOLEAN, io_error \in BOOLEAN :
        LET key == HistKey(market, SYMBOL, ReqStart, ReqEnd)
            g == CacheGet(key, io_error)
            read == ReadsCache(force_refresh)
            hit == read /\ IsCached(g)
            started == [reqs[r] EXCEPT !.market = market,
                                       !.force_refresh = force_refresh,
                                       !.overlap = {q \in Reqs : InFlight(q)}]
        IN  /\ MayRun(r)
            /\ reqs' = [reqs EXCEPT ![r] =
                    [started EXCEPT !.pc = IF hit THEN "done" ELSE "miss",
                                    !.read = read,
                                    !.hit = hit,
                                    !.result = IF hit THEN g.ret ELSE <<>>]]
            /\ IF read
               THEN /\ mongo_docs' = g.docs
                    /\ files' = g.files
                    /\ last' = Call("get", key, None, 0, g.ret, g.tier,
                                    g.raised, io_error)
               ELSE UNCHANGED <<mongo_docs, files, last>>
    /\ UNCHANGED <<redis_client, mongo_db, redis_data>>
    /\ UNCHANGED acqVars
    /\ UNCHANGED fnVars
    /\ UNCHANGED loop

\* lines 81-99: the provider call and the processing; infer: the pandas in
\* use is pandas 2
HistFetch(r) ==
    /\ reqs[r].pc = "miss"
    /\ MayRun(r)
    /\ \E outs \in SvcOuts, sample \in RawSamples, infer \in BOOLEAN :
        LET f == FetchHistory(reqs[r].market, outs)
            raw == IF f.result = <<>> THEN <<>> ELSE sample
            next == AfterFetch(raw)
        IN  /\ acq_last' = AcqCall("history", reqs[r].market, outs, f)
            /\ reqs' = [reqs EXCEPT ![r] =
                    [@ EXCEPT !.pc = next,
                              !.fetched = TRUE,
                              !.raw = raw,
                              !.normalized = next = "write",
                              !.records = IF next = "write"
                                          THEN history_records(raw, ReqStart,
                                                               ReqEnd, infer)
                                          ELSE <<>>,
                              !.result = <<>>]]
    /\ UNCHANGED <<china_source, tushare_token>>
    /\ UNCHANGED cacheVars
    /\ UNCHANGED fnVars
    /\ UNCHANGED loop

\* lines 101-105: the cache write, then the return
HistSet(r) ==
    /\ reqs[r].pc = "write"
    /\ MayRun(r)
    /\ \E io_error \in BOOLEAN :
        LET key == HistKey(reqs[r].market, SYMBOL, ReqStart, ReqEnd)
            w == CacheSet(reqs[r].records, key, STOCK_DATA_CACHE_TTL, io_error)
        IN  /\ redis_data' = w.redis
            /\ mongo_docs' = w.docs
            /\ files' = w.files
            /\ last' = Call("set", key, reqs[r].records, STOCK_DATA_CACHE_TTL,
                            None, w.tier, w.raised, io_error)
            /\ reqs' = [reqs EXCEPT ![r] =
                    [@ EXCEPT !.pc = "done",
                              !.wrote = TRUE,
                              !.result = reqs[r].records]]
    /\ UNCHANGED <<redis_client, mongo_db>>
    /\ UNCHANGED acqVars
    /\ UNCHANGED fnVars
    /\ UNCHANGED loop

\* the coroutine returns result and its slot is free again
HistReturn(r) ==
    /\ reqs[r].pc = "done"
    /\ reqs' = [reqs EXCEPT ![r] = IdleReq]
    /\ UNCHANGED cacheVars
    /\ UNCHANGED acqVars
    /\ UNCHANGED fnVars
    /\ UNCHANGED loop

(* ----------------------------- the event loop -------------------------- *)
\* One process runs every request coroutine on one thread.  A coroutine that
\* awaits a call of a store is suspended until the call has answered and the
\* thread is free; one that makes a plain call keeps the thread until the
\* call returns.  The position of a coroutine is the call it is inside.
\* the awaited calls: redis.get, find_one, redis.setex, update_one
Awaited == {"redis_get", "mongo_find", "redis_setex", "mongo_update"}
\* the plain calls that do I/O: open/json.load, the provider's adapter,
\* open/json.dump
BlockingIo == {"file_read", "provider", "file_write"}
\* the plain calls: those, and the indicator computation of get_indicators
Blocking == BlockingIo \cup {"indicators"}

\* a request: GET /api/technical/{symbol} (technical) or GET
\* /api/stocks/{symbol}/history, the latter with or without force_refresh;
\* hit, the tier whose read answered it; stored, the tier that took its write
LoopReq(pc, technical, force_refresh) ==
    [pc |-> pc, technical |-> technical, force_refresh |-> force_refresh,
     hit |-> "none", stored |-> "none"]
IdleLoopReq == LoopReq("idle", FALSE, FALSE)
LoopIdle == loop = [r \in Reqs |-> IdleLoopReq]

\* the first call of CacheLayer.get, and the call after a miss of T1
AfterRedisMiss == IF mongo_db # "none" THEN "mongo_find" ELSE "file_read"
FirstRead == IF redis_client # "none" THEN "redis_get" ELSE AfterRedisMiss
\* the first call of CacheLayer.set, and the call after T1 refused the write
AfterSetexFail == IF mongo_db # "none" THEN "mongo_update" ELSE "file_write"
FirstWrite == IF redis_client # "none" THEN "redis_setex" ELSE AfterSetexFail
\* get_stock_history returned records: get_indicators computes on them, the
\* history route answers
AfterHistory(req) == IF req.technical THEN "indicators" ELSE "idle"

\* the thread is free for r: no other coroutine is inside a plain call
OnLoop(r) == \A q \in Reqs \ {r} : loop[q].pc \notin Blocking
\* r moves on to the call named
Goto(r, pc) ==
    /\ loop' = [loop EXCEPT ![r].pc = pc]
    /\ UNCHANGED reqs
    /\ UNCHANGED cacheVars
    /\ UNCHANGED acqVars
    /\ UNCHANGED fnVars
\* the read of a tier answered r, which returns the entry
Hit(r, tier) ==
    /\ loop' = [loop EXCEPT ![r].pc = AfterHistory(loop[r]), ![r].hit = tier]
    /\ UNCHANGED reqs
    /\ UNCHANGED cacheVars
    /\ UNCHANGED acqVars
    /\ UNCHANGED fnVars
\* a tier took the write of r, which returns the records
Stored(r, tier) ==
    /\ loop' = [loop EXCEPT ![r].pc = AfterHistory(loop[r]), ![r].stored = tier]
    /\ UNCHANGED reqs
    /\ UNCHANGED cacheVars
    /\ UNCHANGED acqVars
    /\ UNCHANGED fnVars

\* a request arrives and runs to its first call
Arrive(r) ==
    /\ loop[r].pc = "idle"
    /\ OnLoop(r)
    /\ \E technical \in BOOLEAN, force_refresh \in BOOLEAN :
        /\ technical => ~force_refresh
        /\ loop' = [loop EXCEPT ![r] =
                       LoopReq(IF force_refresh THEN "provider" ELSE FirstRead,
                               technical, force_refresh)]
    /\ UNCHANGED reqs
    /\ UNCHANGED cacheVars
    /\ UNCHANGED acqVars
    /\ UNCHANGED fnVars
\* raw = await redis.get(key) answered
RedisGetDone(r) ==
    /\ loop[r].pc = "redis_get"
    /\ OnLoop(r)
    /\ \E answered \in BOOLEAN :
        /\ answered => redis_client = "up"
        /\ IF answered THEN Hit(r, "T1") ELSE Goto(r, AfterRedisMiss)
\* doc = await find_one(...) answered
MongoFindDone(r) ==
    /\ loop[r].pc = "mongo_find"
    /\ OnLoop(r)
    /\ \E answered \in BOOLEAN :
        /\ answered => mongo_db = "up" /\ ~MongoCompareRaises
        /\ IF answered THEN Hit(r, "T2") ELSE Goto(r, "file_read")
\* os.path.exists, open, json.load returned
FileReadDone(r) ==
    /\ loop[r].pc = "file_read"
    /\ \E answered \in BOOLEAN :
        IF answered THEN Hit(r, "T3") ELSE Goto(r, "provider")
\* self._acq.get_..._history(...) returned; the processing runs on
ProviderDone(r) ==
    /\ loop[r].pc = "provider"
    /\ \E nonempty \in BOOLEAN : Goto(r, IF nonempty THEN FirstWrite ELSE "idle")
\* await redis.setex(...) answered
RedisSetexDone(r) ==
    /\ loop[r].pc = "redis_setex"
    /\ OnLoop(r)
    /\ \E taken \in BOOLEAN :
        /\ taken => redis_client = "up"
        /\ IF taken THEN Stored(r, "T1") ELSE Goto(r, AfterSetexFail)
\* await update_one(...) answered
MongoUpdateDone(r) ==
    /\ loop[r].pc = "mongo_update"
    /\ OnLoop(r)
    /\ \E taken \in BOOLEAN :
        /\ taken => mongo_db = "up"
        /\ IF taken THEN Stored(r, "T2") ELSE Goto(r, "file_write")
\* open, json.dump returned, or raised into the except clause of set
FileWriteDone(r) ==
    /\ loop[r].pc = "file_write"
    /\ \E taken \in BOOLEAN :
        IF taken THEN Stored(r, "T3") ELSE Goto(r, AfterHistory(loop[r]))
\* normalize_ohlcv ... to_records of get_indicators returned
IndicatorsDone(r) ==
    /\ loop[r].pc = "indicators"
    /\ Goto(r, "idle")
\* a step of the coroutine r
LoopStep(r) ==
    \/ Arrive(r)
    \/ RedisGetDone(r)
    \/ MongoFindDone(r)
    \/ FileReadDone(r)
    \/ ProviderDone(r)
    \/ RedisSetexDone(r)
    \/ MongoUpdateDone(r)
    \/ FileWriteDone(r)
    \/ IndicatorsDone(r)

(* ------------------------- request authentication --------------------- *)
\* the operations whose route has Depends(get_current_user), and those
\* without
ProtectedOps ==
    {"stocks_list", "stocks_search", "stocks_history", "technical", "markets",
     "market_providers", "cache_stats", "cache_clear", "auth_me"}
OpenOps == {"health", "auth_login", "auth_register"}
\* a token: wellformed, it is three base64 segments of JSON; signed, its
\* signature is that of JWT_SECRET under JWT_ALGORITHM; exp, its expiry
\* claim; sub, it has a subject claim
Tokens ==
    [wellformed : BOOLEAN, signed : BOOLEAN, exp : {"none", "past", "future"},
     sub : BOOLEAN]
NoToken == [wellformed |-> FALSE, signed |-> FALSE, exp |-> "none", sub |-> FALSE]
\* the Authorization header: absent, or a scheme and a token
Headers ==
    {[scheme |-> "absent", token |-> NoToken]}
        \cup [scheme : {"Basic", "Bearer", "bearer"}, token : Tokens]

\* jwt.decode(token, JWT_SECRET, algorithms=[JWT_ALGORITHM])
jwt_decode(token) ==
    IF ~token.wellformed \/ ~token.signed THEN "InvalidTokenError"
    ELSE IF token.exp = "past" THEN "ExpiredSignatureError"
    ELSE "payload"
\* verify_token: the payload, None on the two errors it catches, and the
\* KeyError of payload["sub"] or payload["exp"], which it does not catch
verify_token(token) ==
    IF jwt_decode(token) # "payload" THEN "None"
    ELSE IF ~token.sub \/ token.exp = "none" THEN "KeyError"
    ELSE "TokenPayload"
\* get_current_user: the status it raises, 200 when it returns the user and
\* 500 when an error the global handler answers leaves it
get_current_user(authorization) ==
    IF authorization.scheme \notin {"Bearer", "bearer"} THEN 401
    ELSE IF verify_token(authorization.token) = "None" THEN 401
    ELSE IF verify_token(authorization.token) = "KeyError" THEN 500
    ELSE 200

\* a request handled (stage "input": about to be): status, the status of the
\* answer; ran, the body of the route ran
HttpCall(stage, op, authorization, status, ran) ==
    [stage |-> stage, op |-> op, authorization |-> authorization,
     status |-> status, ran |-> ran]
NoHttpCall == HttpCall("none", "health", [scheme |-> "absent", token |-> NoToken], 0, FALSE)
\* the dependencies of the route are resolved, then its body runs
HandleRequest ==
    /\ http_call.stage = "input"
    /\ LET status == IF http_call.op \in ProtectedOps
                     THEN get_current_user(http_call.authorization) ELSE 200
       IN  http_call' = HttpCall("done", http_call.op, http_call.authorization,
                                 status, status = 200)
    /\ UNCHANGED cacheVars
    /\ UNCHANGED acqVars
    /\ UNCHANGED svcVars
    /\ UNCHANGED <<key_call, key_seen, proc_call, ind_call, ana_call>>

\* the services and the pure functions while another specification runs
SvcIdle == reqs = [r \in Reqs |-> IdleReq] /\ LoopIdle
FnIdle ==
    /\ key_call = NoKeyCall
    /\ key_seen = NoKeyCall
    /\ proc_call = NoProcCall
    /\ ind_call = NoIndCall
    /\ ana_call = NoAnaCall
    /\ http_call = NoHttpCall

(* --------------------------- specifications --------------------------- *)
Init == CacheInit /\ AcqIdle /\ SvcIdle /\ FnIdle
Next ==
    \/ Get
    \/ Set
    \/ Delete
    \/ RedisFail
    \/ RedisRecover
    \/ MongoFail
    \/ MongoRecover
    \/ Tick
Spec == Init /\ [][Next]_vars

AcqSpecInit == AcqInit /\ CacheIdle /\ SvcIdle /\ FnIdle
AcqNext ==
    \/ GetStockHistory
    \/ GetChinaStockList
AcqSpec == AcqSpecInit /\ [][AcqNext]_vars

\* the history service over the cache and the acquisition layer: the stores
\* hold the history keys, the handles are connected or not
SvcInit ==
    /\ redis_client \in {"none", "up"}
    /\ mongo_db \in {"none", "up"}
    /\ redis_data = [k \in HistKeys |-> NoRedis]
    /\ mongo_docs = [k \in HistKeys |-> NoDoc]
    /\ files = [f \in HistPaths |-> NoFile]
    /\ last = NoCall("none")
    /\ AcqIdle
    /\ SvcIdle
    /\ FnIdle
SvcNext ==
    \/ \E r \in Reqs : HistGet(r)
    \/ \E r \in Reqs : HistFetch(r)
    \/ \E r \in Reqs : HistSet(r)
    \/ \E r \in Reqs : HistReturn(r)
SvcSpec == SvcInit /\ [][SvcNext]_vars

\* _make_key, called while the Redis handle fails and recovers
KeyInit ==
    /\ redis_client = "up"
    /\ mongo_db = "none"
    /\ redis_data = [k \in Keys |-> NoRedis]
    /\ mongo_docs = [k \in Keys |-> NoDoc]
    /\ files = [f \in Paths |-> NoFile]
    /\ last = NoCall("none")
    /\ AcqIdle
    /\ SvcIdle
    /\ key_call = NoKeyCall
    /\ \E namespace \in Namespaces, parts \in PartLists :
            key_seen = KeyInput(namespace, parts)
    /\ proc_call = NoProcCall
    /\ ind_call = NoIndCall
    /\ ana_call = NoAnaCall
    /\ http_call = NoHttpCall
KeyNext ==
    \/ MakeKey
    \/ MakeOtherKey
    \/ RedisFail
    \/ RedisRecover
KeySpec == KeyInit /\ [][KeyNext]_vars

\* normalize_ohlcv on every list of raw records, and on its own output
ProcInit ==
    /\ CacheIdle
    /\ AcqIdle
    /\ SvcIdle
    /\ key_call = NoKeyCall
    /\ key_seen = NoKeyCall
    /\ ind_call = NoIndCall
    /\ ana_call = NoAnaCall
    /\ http_call = NoHttpCall
    /\ \E raw \in RawLists, infer \in BOOLEAN :
            proc_call = ProcCall("input", raw, infer, <<>>, <<>>, <<>>)
ProcNext ==
    \/ Normalize
    \/ Renormalize
ProcSpec == ProcInit /\ [][ProcNext]_vars

\* GET /api/technical/{symbol} on every indicators parameter
IndInit == CacheIdle /\ AcqIdle /\ SvcIdle /\ FnIdle
IndNext == GetIndicators
IndSpec == IndInit /\ [][IndNext]_vars

\* every transform of the Normalizer and of the Indicator Engine, called once
\* on every frame
AnaInit ==
    /\ CacheIdle
    /\ AcqIdle
    /\ SvcIdle
    /\ key_call = NoKeyCall
    /\ key_seen = NoKeyCall
    /\ proc_call = NoProcCall
    /\ ind_call = NoIndCall
    /\ http_call = NoHttpCall
    /\ \E df \in Frames : ana_call = AnaInput(df)
AnaNext ==
    \/ FilterDateRange
    \/ FillMissing
    \/ AddBasicMetrics
    \/ AddMa
    \/ AddEma
    \/ AddMacd
    \/ AddRsi
    \/ AddBollinger
    \/ AddKdj
    \/ AddAtr
    \/ ComputeAll
AnaSpec == AnaInit /\ [][AnaNext]_vars

\* two request coroutines on the event loop, the handles connected or not
LoopInit ==
    /\ redis_client \in HandleStates
    /\ mongo_db \in HandleStates
    /\ redis_data = [k \in Keys |-> NoRedis]
    /\ mongo_docs = [k \in Keys |-> NoDoc]
    /\ files = [f \in Paths |-> NoFile]
    /\ last = NoCall("none")
    /\ AcqIdle
    /\ SvcIdle
    /\ FnIdle
LoopNext ==
    \/ \E r \in Reqs : Arrive(r)
    \/ \E r \in Reqs : RedisGetDone(r)
    \/ \E r \in Reqs : MongoFindDone(r)
    \/ \E r \in Reqs : FileReadDone(r)
    \/ \E r \in Reqs : ProviderDone(r)
    \/ \E r \in Reqs : RedisSetexDone(r)
    \/ \E r \in Reqs : MongoUpdateDone(r)
    \/ \E r \in Reqs : FileWriteDone(r)
    \/ \E r \in Reqs : IndicatorsDone(r)
LoopSpec == LoopInit /\ [][LoopNext]_vars

\* every operation requested with every Authorization header
AuthInit ==
    /\ CacheIdle
    /\ AcqIdle
    /\ SvcIdle
    /\ key_call = NoKeyCall
    /\ key_seen = NoKeyCall
    /\ proc_call = NoProcCall
    /\ ind_call = NoIndCall
    /\ ana_call = NoAnaCall
    /\ \E op \in ProtectedOps \cup OpenOps, authorization \in Headers :
            http_call = HttpCall("input", op, authorization, 0, FALSE)
AuthNext == HandleRequest
AuthSpec == AuthInit /\ [][AuthNext]_vars

(* ============================ the cache claims ======================== *)
\* a step that is a call of get, of set, of delete
GetStep == last'.op = "get" /\ ~last'.env
SetStep == last'.op = "set" /\ ~last'.env
\* the state right after a call of get, of delete: nothing has changed since
AfterGet == last.op = "get" /\ ~last.env
AfterDelete == last.op = "delete" /\ ~last.env

\* C1: set writes at most one tier per call; whenever the T1 write succeeds
\* (the Redis handle answers and takes the ttl) the value is in T1 and T2 and
\* T3 hold exactly what they held before the call.
C1_SetWritesOneTier ==
    [][SetStep =>
        /\ Cardinality({t \in {"T1"} : redis_data' # redis_data}
                       \cup {t \in {"T2"} : mongo_docs' # mongo_docs}
                       \cup {t \in {"T3"} : files' # files}) <= 1
        /\ (redis_client = "up" /\ last'.ttl > 0) =>
              /\ last'.tier = "T1"
              /\ redis_data'[last'.key] =
                    [raw |-> json_dumps(last'.value), rem |-> last'.ttl]
        /\ last'.tier = "T1" => (mongo_docs' = mongo_docs /\ files' = files)
      ]_vars

\* a set that landed in T1 while T2 and T3 both hold another value of the key
C1_Witness ==
    /\ last.op = "set" /\ ~last.env /\ last.tier = "T1"
    /\ last.held = {"T1", "T2", "T3"}
    /\ mongo_docs[last.key].value # last.value
    /\ files[file_path(last.key)].value # last.value

\* C2: a value set while T1 was down and T2 up is only in T2; with T1 up
\* again, a get of the key misses T1 and is served by T2 (and T1 still does
\* not hold the key afterwards).
C2_ServedThroughT2 ==
    (/\ AfterGet
     /\ redis_client = "up" /\ mongo_db = "up"
     /\ last.held = {"T2"}
     /\ mongo_docs[last.key] # NoDoc
     /\ mongo_docs[last.key].t1 = "down"
     /\ mongo_docs[last.key].rem > 0)
    => (/\ last.tier = "T2"
        /\ last.ret = mongo_docs[last.key].value
        /\ redis_data[last.key] = NoRedis)

\* what get is to return by C3: the value of the first tier, in the order T1,
\* T2, T3, that can be read and holds an unexpired entry for the key
FirstUnexpired(key, io_error) ==
    IF redis_client = "up" /\ redis_data[key] # NoRedis
    THEN json_loads(redis_data[key].raw)
    ELSE IF mongo_db = "up" /\ mongo_docs[key] # NoDoc /\ mongo_docs[key].rem >= 0
    THEN mongo_docs[key].value
    ELSE IF /\ files[file_path(key)] # NoFile
            /\ ~io_error
            /\ files[file_path(key)].rem >= 0
    THEN files[file_path(key)].value
    ELSE None

\* C3: get returns the value of the first tier, in the order T1, T2, T3, that
\* has an unexpired entry for the key, and None exactly when none has one.
\* (get removes nothing but expired entries, so the stores after the call
\* decide it.)
C3_FirstTierWins ==
    AfterGet => last.ret = FirstUnexpired(last.key, last.io_error)

\* C4: no error of a tier leaves get; the failing tier counts as a miss and
\* the read goes on: when T1 and T2 do not serve the key and the file can be
\* read and is unexpired, get returns the file's value.
C4_GetNeverRaises ==
    AfterGet =>
        /\ ~last.raised
        /\ (/\ redis_client # "up" \/ redis_data[last.key] = NoRedis
            /\ \/ mongo_db # "up"
               \/ mongo_docs[last.key] = NoDoc
               \/ MongoCompareRaises
            /\ files[file_path(last.key)] # NoFile
            /\ files[file_path(last.key)].rem >= 0
            /\ ~last.io_error)
           => (last.tier = "T3" /\ last.ret = files[file_path(last.key)].value)

\* a get with Redis raising and the T2 read raising that the file served
C4_Witness ==
    /\ AfterGet
    /\ redis_client = "down" /\ "T1" \in last.held
    /\ mongo_db = "up" /\ "T2" \in last.held
    /\ last.tier = "T3" /\ last.ret \in Values

\* C5: a get right after set(v, key, ttl) returns v, whenever a tier took the
\* value and the read of the file does not fail (stated for ttl > 0).
C5_RoundTrip ==
    [][(/\ last.op = "set" /\ ~last.env
        /\ last.ttl > 0
        /\ last.tier # "none"
        /\ GetStep
        /\ last'.key = last.key
        /\ ~last'.io_error)
       => last'.ret = last.value]_vars

\* C6 as stated: after a set with ttl = 0 the next get of the key returns None.
C6_ZeroTtlAbsent ==
    [][(last.op = "set" /\ last.ttl = 0 /\ GetStep /\ last'.key = last.key)
       => last'.ret = None]_vars

OtherUnexpired(key, tier) ==
    \/ tier # "T1" /\ redis_data[key] # NoRedis
    \/ tier # "T2" /\ mongo_docs[key] # NoDoc /\ mongo_docs[key].rem >= 0
    \/ tier # "T3" /\ files[file_path(key)] # NoFile
                   /\ files[file_path(key)].rem >= 0

C7_DeleteFansOut ==
    AfterDelete =>
        /\ ~last.raised
        /\ redis_client = "up" => redis_data[last.key] = NoRedis
        /\ mongo_db = "up" => mongo_docs[last.key] = NoDoc
        /\ ~last.io_error => files[file_path(last.key)] = NoFile

\* a delete of a key all three tiers held, with Redis raising: T1 keeps the
\* key, T2 and T3 have lost it
C7_Witness ==
    /\ AfterDelete
    /\ last.held = {"T1", "T2", "T3"}
    /\ redis_client = "down"
    /\ redis_data[last.key] # NoRedis
    /\ mongo_db = "up"
    /\ mongo_docs[last.key] = NoDoc
    /\ files[file_path(last.key)] = NoFile

(* ======================== the acquisition claims ====================== *)
\* the state right after a call of get_china_stock_history or _list
AfterChina == acq_last.op # "none" /\ acq_last.market = "CN"

\* what the i-th candidate provider does when called
Does(i) == FetchChina(ProviderOrder(china_source)[i], acq_last.outs)
\* the candidates that would return data
Winners == {i \in DOMAIN ProviderOrder(china_source) : Does(i) = "data"}

\* C8: the candidates are called in order; the first that raises nothing and
\* returns data wins: its records are returned and no later candidate is
\* called; one that raises or returns empty is skipped.
C8_FirstDataWins ==
    AfterChina =>
        LET order == ProviderOrder(china_source)
            calls == acq_last.calls
        IN  /\ Len(calls) <= Len(order)
            /\ \A i \in DOMAIN calls :
                    calls[i] = <<order[i], Does(i)>>
            /\ IF Winners = {}
               THEN Len(calls) = Len(order) /\ acq_last.result = <<>>
               ELSE \E w \in Winners :
                        /\ \A j \in Winners : w <= j
                        /\ Len(calls) = w
                        /\ acq_last.result = Records(order[w])

\* the first candidate raised, the second returned data and won, and a later
\* candidate that also had data was not called
C8_Witness ==
    /\ AfterChina
    /\ Len(acq_last.calls) = 2
    /\ acq_last.calls[1][2] = "raise"
    /\ acq_last.calls[2][2] = "data"
    /\ acq_last.result = Records(acq_last.calls[2][1])
    /\ Cardinality(Winners) = 2

\* C9: for every market and every outcome of the providers, the call returns
\* and raises nothing; the result is the empty list when no candidate has
\* data.
C9_NeverRaises ==
    acq_last.op # "none" =>
        /\ ~acq_last.raised
        /\ acq_last.result \in Seq([source : KnownProviders \cup {"yfinance"}])
        /\ (\A i \in DOMAIN acq_last.calls : acq_last.calls[i][2] # "data")
              => acq_last.result = <<>>

\* every candidate of a CN request failed, tushare for want of a token
C9_Witness ==
    /\ AfterChina
    /\ ~tushare_token
    /\ acq_last.outs["tushare"] = "data"
    /\ Len(acq_last.calls) = 3
    /\ \E i \in 1..3 : acq_last.calls[i] = <<"tushare", "raise">>
    /\ \E i \in 1..3 : acq_last.calls[i][2] = "empty"
    /\ acq_last.result = <<>>

\* the place of a known provider in the fixed order akshare, tushare, baostock
FixedRank(p) == IF p = "akshare" THEN 1 ELSE IF p = "tushare" THEN 2 ELSE 3

\* C10: the providers of one request are the configured default first, then
\* the other known providers in the order akshare, tushare, baostock, none
\* of them twice; when all fail, every known provider has been called once.
C10_ProviderOrder ==
    AfterChina =>
        LET calls == acq_last.calls
            name(i) == calls[i][1]
        IN  /\ Len(calls) >= 1
            /\ name(1) = china_source
            /\ \A i, j \in DOMAIN calls : i # j => name(i) # name(j)
            /\ \A i \in DOMAIN calls : i > 1 =>
                    name(i) \in {"akshare", "tushare", "baostock"}
            /\ \A i, j \in DOMAIN calls :
                    1 < i /\ i < j => FixedRank(name(i)) < FixedRank(name(j))
            /\ acq_last.result = <<>> =>
                    {name(i) : i \in DOMAIN calls}
                        = {china_source, "akshare", "tushare", "baostock"}

\* tushare is the default and every provider failed: tushare, akshare,
\* baostock were called, in that order
C10_Witness ==
    /\ AfterChina
    /\ china_source = "tushare"
    /\ acq_last.result = <<>>
    /\ [i \in DOMAIN acq_last.calls |-> acq_last.calls[i][1]]
            = <<"tushare", "akshare", "baostock">>

(* ======================== the StockService claims ===================== *)
\* a step of request r: its cache read, its provider call, its cache write
GetStepOf(r) == reqs[r].pc = "idle" /\ reqs'[r].pc # "idle"
FetchStepOf(r) == reqs[r].pc = "miss" /\ reqs'[r].pc # "miss"
SetStepOf(r) == reqs[r].pc = "write" /\ reqs'[r].pc = "done"

\* the cache key of the history of (market, symbol, start, end)
HistoryKeyOf(q) ==
    make_key(HISTORY_CACHE_NS,
             <<MarketStr(q.market), SYMBOL, DayStr(ReqStart), DayStr(ReqEnd)>>)

\* no tier has gained or changed an entry
NothingWritten ==
    /\ redis_data' = redis_data
    /\ \A k \in DOMAIN mongo_docs : mongo_docs'[k] \in {mongo_docs[k], NoDoc}
    /\ \A f \in DOMAIN files : files'[f] \in {files[f], NoFile}

\* C11: without force_refresh get_stock_history first reads the cache at the
\* key of ("history", market, symbol, start, end); on a hit it returns what
\* the cache returned, calls no provider and writes no tier.  With
\* force_refresh it does not read the cache and always calls the acquisition
\* layer.
C11_CacheFirst ==
    [][\A r \in Reqs :
        LET q == reqs'[r]
        IN  /\ GetStepOf(r) =>
                /\ NothingWritten
                /\ acq_last' = acq_last
                /\ ~q.fetched /\ ~q.wrote
                /\ ~q.force_refresh =>
                      /\ q.read
                      /\ last'.op = "get" /\ ~last'.env
                      /\ last'.key = HistoryKeyOf(q)
                      /\ IF last'.tier # "none"
                         THEN q.hit /\ q.pc = "done" /\ q.result = last'.ret
                         ELSE ~q.hit /\ q.pc = "miss"
                /\ q.force_refresh =>
                      /\ ~q.read /\ q.pc = "miss"
                      /\ UNCHANGED <<mongo_docs, files, last>>
            /\ q.hit => q.pc = "done" /\ ~q.fetched /\ ~q.wrote
            /\ (q.force_refresh /\ q.pc \in {"write", "done"}) => q.fetched
      ]_vars

\* one request was served from the cache and called no provider, while
\* another, with force_refresh, went to the providers although the cache
\* held the key
C11_Witness ==
    \E r, q \in Reqs :
        /\ reqs[r].pc = "done" /\ reqs[r].hit /\ ~reqs[r].fetched
        /\ reqs[r].result # <<>>
        /\ reqs[q].force_refresh /\ reqs[q].fetched /\ ~reqs[q].read
        /\ redis_data[HistoryKeyOf(reqs[q])] # NoRedis

C13_ProcessedThenCached ==
    [][\A r \in Reqs :
        /\ (FetchStepOf(r) /\ reqs'[r].raw # <<>>) => reqs'[r].pc = "write"
        /\ SetStepOf(r) =>
            LET q == reqs[r]
                key == HistoryKeyOf(q)
            IN  /\ q.fetched /\ q.raw # <<>> /\ q.normalized
                /\ \E infer \in BOOLEAN :
                     q.records =
                        to_records(add_basic_metrics(fill_missing(
                            filter_date_range(normalize_ohlcv(q.raw, infer),
                                              <<ReqStart>>, <<ReqEnd>>))))
                /\ last'.op = "set" /\ ~last'.env
                /\ last'.key = key
                /\ last'.value = q.records
                /\ last'.ttl = STOCK_DATA_CACHE_TTL
                /\ reqs'[r].result = q.records
                /\ last'.tier = "T1" =>
                      redis_data'[key] = [raw |-> json_dumps(q.records),
                                          rem |-> STOCK_DATA_CACHE_TTL]
                /\ last'.tier = "T2" =>
                      /\ mongo_docs'[key].value = q.records
                      /\ mongo_docs'[key].rem = STOCK_DATA_CACHE_TTL
                /\ last'.tier = "T3" =>
                      files'[file_path(key)] =
                          File(q.records, STOCK_DATA_CACHE_TTL)
      ]_vars

\* a request has cached and returned the one record in range, whose zero
\* close found no earlier value inside the range
C13_Witness ==
    \E r \in Reqs :
        /\ reqs[r].pc = "done" /\ reqs[r].wrote
        /\ Len(reqs[r].raw) = 2
        /\ Len(reqs[r].result) = 1
        /\ reqs[r].result[1].close = RawNaN
        /\ last.op = "set" /\ last.tier = "T3" /\ last.value = reqs[r].result

\* C14: get_stock_history takes no lock: whenever an await can suspend a
\* request (a Redis or MongoDB handle is there), every request can take its
\* next step whatever the other requests for the same key are doing.
C14_NoMutualExclusion ==
    \A r \in Reqs :
        Suspends =>
            /\ reqs[r].pc = "idle" => ENABLED HistGet(r)
            /\ reqs[r].pc = "miss" => ENABLED HistFetch(r)
            /\ reqs[r].pc = "write" => ENABLED HistSet(r)

\* two requests for one key were in flight together, both missed the cache,
\* both called the acquisition layer and both wrote the entry
C14_Witness ==
    \E r, q \in Reqs :
        /\ r # q
        /\ reqs[r].market = reqs[q].market
        /\ r \in reqs[q].overlap
        /\ reqs[r].read /\ ~reqs[r].hit /\ reqs[r].fetched /\ reqs[r].wrote
        /\ reqs[q].read /\ ~reqs[q].hit /\ reqs[q].fetched /\ reqs[q].wrote

(* ====================== the TechnicalService claim ==================== *)
\* C15: get_indicators applies exactly the transforms the requested subset
\* names, in the order ma, ema, macd, rsi, boll, kdj, atr, and all seven only
\* when no subset is given (the parameter is absent or the empty string);
\* the result has the columns of no other transform.
C15_ExactlyRequested ==
    (ind_call.op = "indicators" /\ ind_call.status = "ok" /\ ind_call.has_history)
    =>  LET unspecified == ~ind_call.query.given \/ ind_call.query.items = <<"">>
            named == {ind_call.indicators[i] : i \in DOMAIN ind_call.indicators}
            expected == IF unspecified THEN SUPPORTED
                        ELSE SelectSeq(SUPPORTED, LAMBDA t : t \in named)
        IN  /\ ind_call.applied = expected
            /\ ind_call.columns =
                  UNION {Columns(expected[i]) : i \in DOMAIN expected}

(* ============================ the key claims ========================== *)
\* the bound the tests put on the length of a key
KeyLenBound == 250

\* C16: whatever the namespace and the parts, the key _make_key returns is
\* at most KeyLenBound characters long.
C16_KeyLengthBounded ==
    key_call.op = "make_key" => Len(key_call.key) <= KeyLenBound

DatesOf(call) ==
    [i \in DOMAIN call.arg |->
        IF \A j \in DOMAIN call.arg : call.arg[j].date.k = "missing"
        THEN ZeroDate ELSE call.arg[i].date]
\* the input records whose date parses to day d
OnDay(call, d) ==
    {i \in DOMAIN call.arg : to_datetime(DatesOf(call), call.infer)[i] = <<d>>}

\* C18: the dates of the output of normalize_ohlcv are date strings, unique
\* and strictly ascending, for every list of raw records in every order.
C18_DatesAscending ==
    proc_call.op \in {"normalize", "renormalize"} =>
        /\ \A i \in DOMAIN proc_call.out :
                /\ proc_call.out[i].date.k = "str"
                /\ proc_call.out[i].date.fmt = "date"
        /\ \A i, j \in DOMAIN proc_call.out :
                i < j => proc_call.out[i].date.day < proc_call.out[j].date.day

\* two records came in descending order of date and left in ascending order
C18_Witness ==
    /\ proc_call.op = "normalize"
    /\ Len(proc_call.raw) = 2 /\ Len(proc_call.out) = 2
    /\ proc_call.raw[1].date.k = "str" /\ proc_call.raw[2].date.k = "str"
    /\ proc_call.raw[1].date.day > proc_call.raw[2].date.day
    /\ proc_call.out[1].close = to_numeric(proc_call.raw[2].close)

C20_Idempotent ==
    proc_call.op = "renormalize" => proc_call.out = proc_call.first

\* the first pass sorted two records and typed their values; the second pass
\* returned the same two rows
C20_Witness ==
    /\ proc_call.op = "renormalize"
    /\ Len(proc_call.first) = 2 /\ Len(proc_call.out) = 2
    /\ proc_call.raw[1].date.day > proc_call.raw[2].date.day
    /\ proc_call.raw # proc_call.arg
    /\ RawText \in {proc_call.raw[i].close : i \in DOMAIN proc_call.raw}


\* the input records whose date is a string that parses, taken on its own, to
\* day d
ParseableOn(call, d) ==
    {i \in DOMAIN call.arg :
        call.arg[i].date.k = "str" /\ call.arg[i].date.day = d}

\* C21: normalize_ohlcv drops every record whose date is missing or does not
\* parse and no other: the output has a row for a day exactly when some input
\* record has a parseable date of that day.
C21_MalformedDropped ==
    proc_call.op = "normalize" =>
        \A d \in 0..MaxDay :
            (\E i \in DOMAIN proc_call.out : proc_call.out[i].date.day = d)
                <=> ParseableOn(proc_call, d) # {}

(* ===================== the Indicator Engine claims ==================== *)
\* the calls of the transforms of AnalysisLayer
AnalysisOps ==
    {"add_ma", "add_ema", "add_macd", "add_rsi", "add_bollinger", "add_kdj",
     "add_atr", "compute_all"}
\* the windows a call computes the RSI for
RsiPeriods(call) ==
    IF call.op = "add_rsi" THEN OrDefault(call.params, <<6, 14>>)
    ELSE IF call.op = "compute_all" /\ call.arg # <<>> THEN <<6, 14>>
    ELSE <<>>
\* the RSI of row i for the n-th window of the call
RsiOf(call, n, i) == call.out[i]["RSI" \o ToString(RsiPeriods(call)[n])]
\* a float lies in the closed interval from lo to hi
Within(v, lo, hi) == QLe(<<lo, 1>>, v) /\ QLe(v, <<hi, 1>>)

\* C22: on every row where the rolling average of the losses is exactly
\* zero, the RSI is 100.
C22_ZeroLossGivesHundred ==
    \A n \in DOMAIN RsiPeriods(ana_call) :
        \A i \in DOMAIN ana_call.out :
            avg_loss(ana_call.arg, RsiPeriods(ana_call)[n])[i] = <<0, 1>>
                => Within(RsiOf(ana_call, n, i), 100, 100)

\* C23: every RSI that is a number lies between 0 and 100, ends included.
C23_RsiInRange ==
    \A n \in DOMAIN RsiPeriods(ana_call) :
        \A i \in DOMAIN ana_call.out :
            RsiOf(ana_call, n, i) # NaN => Within(RsiOf(ana_call, n, i), 0, 100)

\* a rise and then a fall inside one window of two rows: the RSI of the
\* third row lies strictly between the ends
C23_Witness ==
    /\ ana_call.op = "add_rsi" /\ ana_call.params = <<2>>
    /\ Len(ana_call.out) = 3
    /\ ana_call.out[3]["RSI2"] # NaN
    /\ ~Within(ana_call.out[3]["RSI2"], 100, 100)
    /\ ~Within(ana_call.out[3]["RSI2"], 0, 0)
    /\ Within(ana_call.out[3]["RSI2"], 0, 100)

\* the ATR column of a call that has one
AtrColumn(call) ==
    IF call.op = "add_atr" THEN "ATR" \o ToString(call.params[1]) ELSE "ATR14"

\* C24: every ATR that is a number is at least 0, whatever the highs, lows
\* and closes, the first row included.
C24_AtrNonNegative ==
    ana_call.op \in {"add_atr", "compute_all"} =>
        \A i \in DOMAIN ana_call.out :
            (/\ AtrColumn(ana_call) \in DOMAIN ana_call.out[i]
             /\ ana_call.out[i][AtrColumn(ana_call)] # NaN)
            => QLe(<<0, 1>>, ana_call.out[i][AtrColumn(ana_call)])

\* the three bands of row i are numbers
BandsDefined(call, i) ==
    /\ "BOLL_MID" \in DOMAIN call.out[i]
    /\ call.out[i]["BOLL_MID"] # NaN
    /\ call.out[i]["BOLL_UPPER"] # NaN
    /\ call.out[i]["BOLL_LOWER"] # NaN
\* on every row with three bands, lower <= mid <= upper
BandsOrdered(call) ==
    \A i \in DOMAIN call.out :
        BandsDefined(call, i) =>
            /\ QLe(call.out[i]["BOLL_LOWER"], call.out[i]["BOLL_MID"])
            /\ QLe(call.out[i]["BOLL_MID"], call.out[i]["BOLL_UPPER"])

\* C25 as stated: the bands are ordered for every series, period and
\* multiplier passed to add_bollinger.
C25_BandsOrderedAnyMultiplier ==
    ana_call.op \in {"add_bollinger", "compute_all"} => BandsOrdered(ana_call)

\* C25: the bands are ordered for every series and period and every
\* multiplier that is not negative.
C25_BandsOrdered ==
    (\/ ana_call.op = "compute_all"
     \/ ana_call.op = "add_bollinger" /\ ana_call.params[2] >= 0)
    => BandsOrdered(ana_call)

\* two closes that differ in one window, multiplier 2: the bands of that row
\* are three different numbers
C25_Witness ==
    /\ ana_call.op = "add_bollinger" /\ ana_call.params = <<2, 2>>
    /\ \E i \in DOMAIN ana_call.out :
        /\ BandsDefined(ana_call, i)
        /\ ~QLe(ana_call.out[i]["BOLL_MID"], ana_call.out[i]["BOLL_LOWER"])
        /\ ~QLe(ana_call.out[i]["BOLL_UPPER"], ana_call.out[i]["BOLL_MID"])

\* C26: a transform of the Indicator Engine only appends columns: the output
\* has the rows of the input, in the same order, every input column with the
\* value it had; on an empty input it returns the input, and does not raise.
C26_OnlyAppends ==
    ana_call.op \in AnalysisOps =>
        /\ ~ana_call.raised
        /\ Len(ana_call.out) = Len(ana_call.arg)
        /\ \A i \in DOMAIN ana_call.arg :
                \A c \in DOMAIN ana_call.arg[i] :
                    /\ c \in DOMAIN ana_call.out[i]
                    /\ ana_call.out[i][c] = ana_call.arg[i][c]
        /\ ana_call.arg = <<>> => ana_call.same /\ ana_call.out = <<>>

\* compute_all on three rows with a high and a low: the rows came back with
\* the columns of the first and of the last transform
C26_Witness ==
    /\ ana_call.op = "compute_all"
    /\ Len(ana_call.arg) = 3 /\ Len(ana_call.out) = 3
    /\ ~ana_call.same
    /\ "MA5" \in DOMAIN ana_call.out[1]
    /\ "ATR14" \in DOMAIN ana_call.out[3]
    /\ ana_call.out[3].close = ana_call.arg[3].close

\* C27: no transform of the Normalizer or of the Indicator Engine changes the
\* frame passed to it: after the call the caller's frame is what it was.
C27_ArgumentUntouched ==
    ana_call.op \notin {"none", "input"} => ana_call.arg_after = ana_call.arg

(* ========================= the scheduling claims ====================== *)
\* C28: while a request is inside a provider call, a store call or a file
\* access, every other request in flight can take its next step; only while
\* a request computes indicators can no other request run.
C28_IoNonBlocking ==
    \A q \in Reqs : \A r \in Reqs \ {q} :
        loop[r].pc \in Awaited =>
            /\ loop[q].pc \in Awaited \cup BlockingIo => ENABLED LoopStep(r)
            /\ loop[q].pc = "indicators" => ~ENABLED LoopStep(r)

(* ======================= the authentication claims ==================== *)
\* the header carries a token the service issues: signed with its secret,
\* with a subject and an expiry that lies ahead
ValidBearer(authorization) ==
    /\ authorization.scheme \in {"Bearer", "bearer"}
    /\ authorization.token.wellformed /\ authorization.token.signed
    /\ authorization.token.sub /\ authorization.token.exp = "future"

\* C29: a request to a protected operation without a bearer token, or with
\* one that is invalid or expired, is answered 401 and the body of the route,
\* with its cache, acquisition and service calls, does not run.
C29_RejectedWith401 ==
    (/\ http_call.stage = "done"
     /\ http_call.op \in ProtectedOps
     /\ ~ValidBearer(http_call.authorization))
    => http_call.status = 401 /\ ~http_call.ran

(* ========================== the expiry claims ========================= *)
\* a step that is a call of delete
DeleteStep == last'.op = "delete" /\ ~last'.env
\* the call of get that the step is reads T2, reads T3: the tiers before
\* did not serve it and the store answers
MeetsT2 == GetStep /\ last'.tier # "T1" /\ mongo_db = "up"
MeetsT3 == GetStep /\ last'.tier \notin {"T1", "T2"} /\ ~last'.io_error
\* the entry's expires_at lies in the past
Lapsed(e) == e.value # None /\ e.rem < 0

\* C30: get never returns a T2 or T3 entry whose expires_at lies in the
\* past; a get that reads such an entry deletes it from its tier and goes on
\* to the next tier; and outside a get and a delete of its key no T2 or T3
\* entry is removed.
C30_LazyExpiry ==
    [][\A k \in Keys :
        /\ GetStep /\ last'.key = k =>
            /\ last'.tier = "T2" => ~Lapsed(mongo_docs[k])
            /\ last'.tier = "T3" => ~Lapsed(files[file_path(k)])
            /\ MeetsT2 /\ Lapsed(mongo_docs[k]) => mongo_docs'[k] = NoDoc
            /\ MeetsT3 /\ Lapsed(files[file_path(k)])
                   => files'[file_path(k)] = NoFile
        /\ ~(GetStep /\ last'.key = k) /\ ~(DeleteStep /\ last'.key = k) =>
            /\ mongo_docs[k] # NoDoc => mongo_docs'[k] # NoDoc
            /\ files[file_path(k)] # NoFile => files'[file_path(k)] # NoFile
      ]_vars

(* ======================== the write-path claims ======================= *)
\* the write of the tier is attempted and raises; the tier takes the write
T1Raises == redis_client = "down" \/ (redis_client = "up" /\ last'.ttl <= 0)
T2Raises == mongo_db = "down"
T1Takes == redis_client = "up" /\ last'.ttl > 0
T2Takes == mongo_db = "up"
T3Takes == ~last'.io_error

\* C31: when the write of a tier whose handle is present raises, set returns
\* without raising and writes no lower tier; T2 is written only when T1 has
\* no handle, T3 only when neither T1 nor T2 has one.
C31_ErrorFailsWholeSet ==
    [][SetStep =>
        /\ ~last'.raised
        /\ T1Raises => (mongo_docs' = mongo_docs /\ files' = files)
        /\ (~T1Takes /\ T2Raises) => files' = files
        /\ last'.tier = "T2" => redis_client = "none"
        /\ last'.tier = "T3" => (redis_client = "none" /\ mongo_db = "none")
      ]_vars

\* C31, amended: when the write of a tier raises, set returns without
\* raising and goes on to the next lower tier: the value lands in the first
\* tier that takes the write, T2 is written only when T1 has no handle or its
\* write raised, T3 only when the same holds of T1 and of T2, and when no
\* tier takes the write every tier holds what it held.
C31_ErrorFallsThrough ==
    [][SetStep =>
        LET k == last'.key
            tier == IF T1Takes THEN "T1" ELSE IF T2Takes THEN "T2"
                    ELSE IF T3Takes THEN "T3" ELSE "none"
        IN  /\ ~last'.raised
            /\ last'.tier = tier
            /\ tier = "T2" => /\ redis_client = "none" \/ T1Raises
                              /\ mongo_docs'[k] = Doc(last'.value, last'.ttl)
            /\ tier = "T3" => /\ redis_client = "none" \/ T1Raises
                              /\ mongo_db = "none" \/ T2Raises
                              /\ files'[file_path(k)] = File(last'.value, last'.ttl)
            /\ tier = "none" => /\ redis_data' = redis_data
                                /\ mongo_docs' = mongo_docs
                                /\ files' = files
      ]_vars

\* a set whose T1 write raised and whose T2 write raised landed in T3
C31_Witness ==
    /\ last.op = "set" /\ ~last.env
    /\ redis_client = "down" /\ mongo_db = "down"
    /\ last.tier = "T3"
    /\ files[file_path(last.key)] = File(last.value, last.ttl)


(* ------------------------- the cache TTL claims ----------------------- *)
\* _LIST_CACHE_NS, and the key of self._cache.get/set(_LIST_CACHE_NS, market)
LIST_CACHE_NS == <<"s", "t", "o", "c", "k", "_", "l", "i", "s", "t">>
ListKey(market) == make_key(LIST_CACHE_NS, <<MarketStr(market)>>)
ListMarkets == {"CN", "HK"}
ListKeys == {ListKey(m) : m \in ListMarkets}
\* a key of another caller of the cache layer
OtherKey == make_key(<<"n">>, <<<<"x">>>>)
TtlKeys == HistKeys \cup ListKeys \cup {OtherKey}
TtlPaths == {file_path(k) : k \in TtlKeys}

\* the ttl argument of set: <<>> is the default None, <<t>> an override
TtlArgs == {<<>>} \cup {<<t>> : t \in TTLs}

\* a set that ignores the override
set_ttl_default_only(ttl) == CACHE_TTL

\* `if ttl is None: ttl = settings.CACHE_TTL`
set_ttl(ttl) == IF ttl = <<>> THEN CACHE_TTL ELSE ttl[1]

\* the ttl get_stock_list passes to set: `ttl=settings.CACHE_TTL`
LIST_TTL == <<CACHE_TTL>>

\* get_stock_list, lines 40-54: the cache read unless force_refresh, the
\* return on a hit, the provider chain for CN and [] for any other market,
\* the cache write `if records:`
GetStockList ==
    \E market \in ListMarkets, force_refresh \in BOOLEAN, outs \in SvcOuts,
       io_error \in BOOLEAN :
        LET key == ListKey(market)
            g == CacheGet(key, io_error)
            read == ReadsCache(force_refresh)
            cached == read /\ IsCached(g)
            f == GetChina(outs)
            records == IF market = "CN" THEN f.result ELSE <<>>
            writes == ~cached /\ records # <<>>
            after == [docs |-> IF read THEN g.docs ELSE mongo_docs,
                      files |-> IF read THEN g.files ELSE files]
            w == CacheSet(records, key, set_ttl(LIST_TTL), io_error)
        IN  /\ redis_data' = IF writes THEN w.redis ELSE redis_data
            /\ mongo_docs' = IF writes /\ w.tier = "T2" THEN w.docs
                             ELSE after.docs
            /\ files' = IF writes /\ w.tier = "T3" THEN w.files
                        ELSE after.files
            /\ last' = IF writes
                       THEN [Call("set", key, records, set_ttl(LIST_TTL), None,
                                  w.tier, w.raised, io_error)
                                EXCEPT !.ttl_arg = LIST_TTL]
                       ELSE IF read
                       THEN Call("get", key, None, 0, g.ret, g.tier, g.raised,
                                 io_error)
                       ELSE last
            /\ acq_last' = IF ~cached /\ market = "CN"
                           THEN AcqCall("list", "CN", outs, f)
                           ELSE acq_last
            /\ UNCHANGED <<redis_client, mongo_db, china_source, tushare_token>>
            /\ UNCHANGED svcVars
            /\ UNCHANGED fnVars

\* CacheLayer.set called with or without a ttl, lines 83-131
SetTtl ==
    \E ttl \in TtlArgs, value \in {Records("akshare")}, io_error \in BOOLEAN :
        LET w == CacheSet(value, OtherKey, set_ttl(ttl), io_error)
        IN  /\ redis_data' = w.redis
            /\ mongo_docs' = w.docs
            /\ files' = w.files
            /\ last' = [Call("set", OtherKey, value, set_ttl(ttl), None,
                             w.tier, w.raised, io_error)
                            EXCEPT !.ttl_arg = ttl]
            /\ UNCHANGED <<redis_client, mongo_db>>
            /\ UNCHANGED acqVars
            /\ UNCHANGED svcVars
            /\ UNCHANGED fnVars

\* the service with both of its handlers, and another caller of set; Redis
\* and MongoDB are both connected
TtlInit ==
    /\ redis_client = "up"
    /\ mongo_db = "up"
    /\ redis_data = [k \in TtlKeys |-> NoRedis]
    /\ mongo_docs = [k \in TtlKeys |-> NoDoc]
    /\ files = [f \in TtlPaths |-> NoFile]
    /\ last = NoCall("none")
    /\ AcqIdle
    /\ SvcIdle
    /\ FnIdle
TtlNext ==
    \/ GetStockList
    \/ SetTtl
    \/ HistGet("r1")
    \/ HistFetch("r1")
    \/ HistSet("r1")
    \/ HistReturn("r1")
TtlSpec == TtlInit /\ [][TtlNext]_vars

\* the last call of the cache layer was a write of the history handler / of
\* the list handler / of any caller
HistWrite == last.op = "set" /\ last.key \in HistKeys
ListWrite == last.op = "set" /\ last.key \in ListKeys
AnyWrite == last.op = "set"

\* C32 as stated: history entries and stock-list entries are each written
\* with an explicit TTL that differs from the generic default CACHE_TTL and
\* is longer than it; a set with no override uses the generic default
C32_ExplicitLongerTtl ==
    /\ (HistWrite \/ ListWrite) =>
            /\ last.ttl_arg # <<>>
            /\ last.ttl # CACHE_TTL
            /\ last.ttl > CACHE_TTL
    /\ (AnyWrite /\ last.ttl_arg = <<>>) => last.ttl = CACHE_TTL

\* C32 amended: history entries are written with the explicit TTL
\* STOCK_DATA_CACHE_TTL, which is longer than the generic default; stock-list
\* entries are written with an explicit TTL equal to the generic default
\* CACHE_TTL; a set with no override uses the generic default and a set with
\* an override uses the override
C32_ListUsesGenericTtl ==
    /\ HistWrite =>
            /\ last.ttl_arg = <<STOCK_DATA_CACHE_TTL>>
            /\ last.ttl = STOCK_DATA_CACHE_TTL
            /\ last.ttl > CACHE_TTL
    /\ ListWrite =>
            /\ last.ttl_arg = <<CACHE_TTL>>
            /\ last.ttl = CACHE_TTL
    /\ AnyWrite =>
            /\ last.ttl_arg = <<>> => last.ttl = CACHE_TTL
            /\ last.ttl_arg # <<>> => last.ttl = last.ttl_arg[1]

\* a stock list has been written, with the generic default as its TTL, while
\* a history entry with the longer TTL is in the cache
C32_Witness ==
    /\ last.op = "set"
    /\ last.key \in ListKeys
    /\ last.ttl = CACHE_TTL
    /\ last.ttl_arg = LIST_TTL
    /\ last.tier = "T1"
    /\ redis_data[last.key].rem = CACHE_TTL
    /\ \E k \in HistKeys : redis_data[k].rem = STOCK_DATA_CACHE_TTL


(* ------------------------ the amplitude claims ------------------------ *)
\* add_basic_metrics was called on a frame with a high and a low, and
\* returned the frame with its amplitude
AmplitudeCall ==
    /\ ana_call.op = "add_basic_metrics"
    /\ ~ana_call.raised
    /\ ana_call.arg # <<>>
    /\ "high" \in DOMAIN ana_call.arg[1]

\* C33: add_basic_metrics never divides by zero when it computes amplitude:
\* on every row whose previous close is zero the denominator is the current
\* close, and on every row that has a previous close the denominator used is
\* not zero
C33_NoDivisionByZero ==
    AmplitudeCall =>
        \A i \in DOMAIN ana_call.arg :
            LET d == ana_call.arg
                den == amplitude_denominator(d, i)
            IN  /\ previous_close(d, i) = Num(0) => den = d[i].close
                /\ i > 1 => den # Num(0)
                /\ ~DividedByZero(QSub(Q(d[i].high), Q(d[i].low)), den)
                /\ ana_call.out[i].amplitude = NaN
                    \/ ana_call.out[i].amplitude[2] # 0


(* ----------------------- the fill_missing claims ---------------------- *)
\* the rows before row i whose column c holds a value that is not zero
EarlierNonZero(d, i, c) == {j \in 1..(i - 1) : d[j][c] \notin {Num(0), NaN}}
MostRecent(S) == CHOOSE j \in S : \A h \in S : h <= j

\* fill_missing was called and returned
FillCall == ana_call.op = "fill_missing" /\ ~ana_call.raised

\* C34: fill_missing replaces every zero of a price column that has an
\* earlier non-zero value in that column by the most recent such value,
\* leaves every non-zero value and every other column as it was, and keeps
\* the number and the order of the rows
C34_FillsZerosFromLatest ==
    FillCall =>
        LET d == ana_call.arg
            out == ana_call.out
        IN  /\ Len(out) = Len(d)
            /\ \A i \in DOMAIN d :
                /\ DOMAIN out[i] = DOMAIN d[i]
                /\ out[i].date = d[i].date
                /\ \A c \in DOMAIN d[i] \ {"date"} :
                    /\ c \notin PRICE_COLS => out[i][c] = d[i][c]
                    /\ d[i][c] # Num(0) => out[i][c] = d[i][c]
                    /\ (d[i][c] = Num(0) /\ EarlierNonZero(d, i, c) # {}) =>
                            out[i][c] = d[MostRecent(EarlierNonZero(d, i, c))][c]

\* a zero close after two closes that differ took the later of them
C34_Witness ==
    /\ FillCall
    /\ Len(ana_call.arg) = 3
    /\ ana_call.arg[1].close = Num(1)
    /\ ana_call.arg[2].close = Num(2)
    /\ ana_call.arg[3].close = Num(0)
    /\ ana_call.out[3].close = Num(2)


(* ----------------------- the latest-value claims ---------------------- *)
\* the last call was a set with a ttl above zero that stored its value, and
\* no call has been made and no entry has aged since; handles may have failed
\* and recovered
SetCompleted ==
    last.op = "set" /\ last.ttl > 0 /\ last.tier # "none" /\ ~last.ticked

\* C35: after a set(v2) of a key has completed, no later get of that key
\* returns a value an earlier set of the key wrote, whatever T1 and T2 did in
\* between: the first get after the set returns v2 or absent
C35_LatestValueRead ==
    [][(SetCompleted /\ GetStep /\ last'.key = last.key /\ last'.ret # None)
            => last'.ret = last.value]_vars


(* ------------------- the claims about colliding keys ------------------ *)
\* the logical keys the callers use: a namespace and its parts.  A part may
\* hold "_" or ":" (a symbol such as "BRK_B")
Logical(namespace, parts) == [namespace |-> namespace, parts |-> parts]
LogicalKeys ==
    {Logical(<<"l">>, <<<<"C", "_", "D">>>>),
     Logical(<<"l">>, <<<<"C", ":", "D">>>>),
     Logical(<<"l">>, <<<<"C">>, <<"D">>>>)}
\* the value the callers store
PathValues == {"v1"}
KeyOf(lk) == make_key(lk.namespace, lk.parts)
PathOf(lk) == file_path(KeyOf(lk))
PathKeys == {KeyOf(lk) : lk \in LogicalKeys}
PathPaths == {PathOf(lk) : lk \in LogicalKeys}

\* the delete under study: the _make_key call of the latest delete that found
\* every tier reachable, forgotten when its logical key is set again
Studied(op, lk, io_error) ==
    IF op = "delete" /\ redis_client = "up" /\ mongo_db = "up" /\ ~io_error
    THEN KeyCall(lk.namespace, lk.parts, KeyOf(lk))
    ELSE IF op = "set" /\ key_seen.namespace = lk.namespace
                       /\ key_seen.parts = lk.parts
    THEN NoKeyCall
    ELSE key_seen
PathRest ==
    /\ UNCHANGED <<redis_client, mongo_db>>
    /\ UNCHANGED acqVars
    /\ UNCHANGED svcVars
    /\ UNCHANGED <<proc_call, ind_call, ana_call, http_call>>

\* CacheLayer.get(namespace, *parts), lines 37-81
GetOf ==
    \E lk \in LogicalKeys, io_error \in BOOLEAN :
        LET key == KeyOf(lk)
            r == CacheGet(key, io_error)
        IN  /\ key_call' = KeyCall(lk.namespace, lk.parts, key)
            /\ key_seen' = Studied("get", lk, io_error)
            /\ redis_data' = redis_data
            /\ mongo_docs' = r.docs
            /\ files' = r.files
            /\ last' = Call("get", key, None, 0, r.ret, r.tier, r.raised, io_error)
            /\ PathRest

\* CacheLayer.set(value, namespace, *parts, ttl=...), lines 83-131
SetOf ==
    \E lk \in LogicalKeys, value \in PathValues, io_error \in BOOLEAN :
        LET key == KeyOf(lk)
            w == CacheSet(value, key, CACHE_TTL, io_error)
        IN  /\ key_call' = KeyCall(lk.namespace, lk.parts, key)
            /\ key_seen' = Studied("set", lk, io_error)
            /\ redis_data' = w.redis
            /\ mongo_docs' = w.docs
            /\ files' = w.files
            /\ last' = Call("set", key, value, CACHE_TTL, None, w.tier, w.raised,
                            io_error)
            /\ PathRest

\* CacheLayer.delete(namespace, *parts), lines 133-152
DeleteOf ==
    \E lk \in LogicalKeys, io_error \in BOOLEAN :
        LET key == KeyOf(lk)
            d == CacheDelete(key, io_error)
        IN  /\ key_call' = KeyCall(lk.namespace, lk.parts, key)
            /\ key_seen' = Studied("delete", lk, io_error)
            /\ redis_data' = d.redis
            /\ mongo_docs' = d.docs
            /\ files' = d.files
            /\ last' = Call("delete", key, None, 0, None, "none", d.raised,
                            io_error)
            /\ PathRest

\* the cache layer called on several logical keys while Redis and MongoDB
\* fail and recover
PathInit ==
    /\ redis_client = "up"
    /\ mongo_db = "up"
    /\ redis_data = [k \in PathKeys |-> NoRedis]
    /\ mongo_docs = [k \in PathKeys |-> NoDoc]
    /\ files = [f \in PathPaths |-> NoFile]
    /\ last = NoCall("none")
    /\ AcqIdle
    /\ SvcIdle
    /\ FnIdle
PathNext ==
    \/ GetOf
    \/ SetOf
    \/ DeleteOf
    \/ RedisFail
    \/ RedisRecover
    \/ MongoFail
    \/ MongoRecover
PathSpec == PathInit /\ [][PathNext]_vars

\* C36: after a delete of a key that found all three tiers reachable, every
\* get of that key returns absent until the key is set again
C36_AbsentAfterDelete ==
    (/\ AfterGet
     /\ key_seen.op = "make_key"
     /\ key_call.namespace = key_seen.namespace
     /\ key_call.parts = key_seen.parts) => last.ret = None


\* the logical key of the call just made differs from lk
OtherThanCalled(lk) ==
    lk.namespace # key_call'.namespace \/ lk.parts # key_call'.parts

\* C38: logical keys that differ (their joined strings are short) have cache
\* keys that differ and T3 file paths that differ, so a set or a delete of
\* one logical key leaves the entry of every other logical key in every tier
\* as it was
C38_NoCollision ==
    [][(SetStep \/ DeleteStep) =>
        \A lk \in LogicalKeys :
            (OtherThanCalled(lk)
                /\ Len(Join(<<lk.namespace>> \o lk.parts)) <= MaxRawLen) =>
                    /\ KeyOf(lk) # last'.key
                    /\ PathOf(lk) # file_path(last'.key)
                    /\ redis_data'[KeyOf(lk)] = redis_data[KeyOf(lk)]
                    /\ mongo_docs'[KeyOf(lk)] = mongo_docs[KeyOf(lk)]
                    /\ files'[PathOf(lk)] = files[PathOf(lk)]]_vars


(* ---------------------- the empty-history claims ---------------------- *)
\* raw records none of which is in the result: a day before the range, and
\* a date that does not parse
DroppedSamples ==
    {<<[date |-> DateStr(1, "date"), close |-> RawNum(1)]>>,
     <<[date |-> BadDate, close |-> RawNum(1)]>>}

\* lines 81-99 when the provider answers with such records
HistFetchDropped(r) ==
    /\ reqs[r].pc = "miss"
    /\ MayRun(r)
    /\ \E outs \in SvcOuts, sample \in DroppedSamples, infer \in BOOLEAN :
        LET f == FetchHistory(reqs[r].market, outs)
            raw == IF f.result = <<>> THEN <<>> ELSE sample
            next == AfterFetch(raw)
        IN  /\ acq_last' = AcqCall("history", reqs[r].market, outs, f)
            /\ reqs' = [reqs EXCEPT ![r] =
                    [@ EXCEPT !.pc = next,
                              !.fetched = TRUE,
                              !.raw = raw,
                              !.normalized = next = "write",
                              !.records = IF next = "write"
                                          THEN history_records(raw, ReqStart,
                                                               ReqEnd, infer)
                                          ELSE <<>>,
                              !.result = <<>>]]
    /\ UNCHANGED <<china_source, tushare_token>>
    /\ UNCHANGED cacheVars
    /\ UNCHANGED fnVars
    /\ UNCHANGED loop

\* one request at a time, the provider answering with records in the range
\* or with none
EmptyNext ==
    \/ HistGet("r1")
    \/ HistFetch("r1")
    \/ HistFetchDropped("r1")
    \/ HistSet("r1")
    \/ HistReturn("r1")
EmptySpec == SvcInit /\ [][EmptyNext]_vars

\* C37: get_stock_history never writes an empty record list to the cache:
\* every history entry it writes is non-empty, and no request is answered
\* from the cache with an empty list, so a request whose result is empty
\* reaches the acquisition layer again the next time
C37_NoEmptyHistoryCached ==
    \A r \in Reqs :
        /\ (reqs[r].wrote /\ reqs[r].pc = "done") => reqs[r].result # <<>>
        /\ (reqs[r].hit /\ reqs[r].pc = "done") => reqs[r].result # <<>>
        /\ (last.op = "set" /\ last.key \in HistKeys) => last.value # <<>>

==========================================================================
